---- MODULE Spec2Model ----
(***************************************************************************)
(* Model of the blurest progressive-loading element <ax-blurest>           *)
(* (class AxBlurest) together with the host platform it runs on: the       *)
(* IntersectionObserver that reports visibility, window.setTimeout timers, *)
(* Image() fetches and the wall clock.                                     *)
(*                                                                         *)
(* Every handler of the class is an operator that maps a world record W    *)
(* (all the mutable state) to the world after the handler has run; a       *)
(* handler that calls another handler applies that operator.  The actions  *)
(* at the end are the entry points the host calls.                         *)
(*                                                                         *)
(* The module also holds the blurhash decoder and CSS converter            *)
(* (BlurhashDecoder, BlurhashCssConverter), whose functions are operators  *)
(* applied by the actions of SpecCodec, and the build-time side: the       *)
(* BlurhashCore objects over the native addon and the markdown-it plugin,  *)
(* whose methods map a record K of the cores, the addon and the plugin to  *)
(* the record after the call and its outcome (SpecCore).                   *)
(***************************************************************************)
EXTENDS Integers, Sequences, FiniteSets, TLC

(***************************************************************************)
(* Bounds of the model.                                                    *)
(***************************************************************************)
NumInst == 2          \* element instances that can exist
MaxObs == 2           \* observer objects alive at once, per instance
MaxTimers == 2        \* timers armed at once, per instance
MaxFetch == 2         \* Image() fetches pending at once
MaxAttrChanges == 1   \* setAttribute calls after the element was created
MaxTicks == 1         \* clock ticks in one behaviour
TickMs == 250         \* milliseconds per clock tick
MaxDim == 3           \* largest width and height given to the decoder and converter
MaxBatch == 2         \* hashes in a batch
MaxPunch == 20        \* largest punch, in tenths
MaxStr == 3           \* longest string given to decode83 on its own
NumCores == 2         \* BlurhashCore objects; the last is the one the plugin creates
StartTime == 1000     \* Date.now() when the behaviour starts (never 0)

(***************************************************************************)
(* Program constants.                                                      *)
(***************************************************************************)
DefaultDebugDelay == 3000
NoAnimationThreshold == 200
UnknownDuration == 999
baseSize == 32

Inst == 1..NumInst
Null == 0             \* null handle / null timestamp
NoAttr == "null"      \* getAttribute() of an attribute that is not set

Min(S) == CHOOSE x \in S : \A y \in S : x <= y

(***************************************************************************)
(* Attributes.                                                             *)
(***************************************************************************)
observedAttributes ==
    {"src", "src-width", "src-height", "blurhash", "render-width", "alt",
     "debug", "debug-delay"}

\* The values the host page gives an attribute in this model.
AttrValues(name) ==
    CASE name = "src"          -> {NoAttr, "a.png", "b.png"}
      [] name = "src-width"    -> {NoAttr, "", "400"}
      [] name = "src-height"   -> {NoAttr, "300"}
      [] name = "blurhash"     -> {NoAttr, "000000"}
      [] name = "render-width" -> {NoAttr, "200"}
      [] name = "alt"          -> {NoAttr, "x"}
      [] name = "debug"        -> {NoAttr, ""}
      [] name = "debug-delay"  -> {NoAttr, "0"}

NoAttrs == [n \in observedAttributes |-> NoAttr]

\* JavaScript truthiness of a getAttribute() result: null and "" are falsy.
Truthy(v) == v # NoAttr /\ v # ""

(***************************************************************************)
(* Numbers.  A JavaScript number that may be NaN or Infinity is a record;   *)
(* a fraction is a pair n / d of integers with d > 0.                       *)
(***************************************************************************)
Num(v) == [k |-> "num", v |-> v]
NaN == [k |-> "nan", v |-> 0]
Infinity == [k |-> "inf", v |-> 0]

\* n <= 0 in JavaScript: false for NaN and for Infinity
LessEqZero(n) == n.k = "num" /\ n.v <= 0

Abs(n) == IF n < 0 THEN -n ELSE n

\* Math.round(n / d) for n >= 0, d > 0
RoundDiv(n, d) == (2 * n + d) \div (2 * d)

\* parseInt / parseFloat on the attribute values of the model (NaN for a
\* value that does not start with a digit).
ParseNum(v) ==
    CASE v = "0" -> Num(0)
      [] v = "1" -> Num(1)
      [] v = "200" -> Num(200)
      [] v = "300" -> Num(300)
      [] v = "400" -> Num(400)
      [] OTHER -> NaN

\* The symbols of a placeholder string as indices into BASE83_CHARS
\* (-1: a symbol outside the alphabet, written "!" here).
HashSymbols(h) ==
    CASE h = "000000" -> <<0, 0, 0, 0, 0, 0>>
      [] h = "00000" -> <<0, 0, 0, 0, 0>>
      [] h = "00000!" -> <<0, 0, 0, 0, 0, -1>>
      [] h = "!00000" -> <<-1, 0, 0, 0, 0, 0>>
      [] h = "100000" -> <<1, 0, 0, 0, 0, 0>>
      [] OTHER -> <<>>

(***************************************************************************)
(* Results of a call: a returned value or a thrown error.  An error keeps   *)
(* its class name, the text of its message, the numbers the message names   *)
(* (-1: none) and the context prefixes the callers added when rethrowing.   *)
(***************************************************************************)
Return(v) == [threw |-> FALSE, error |-> "none", value |-> v]

Throw(e) == [threw |-> TRUE, error |-> e, value |-> "none"]

Error(name, text) ==
    [name |-> name, text |-> text, actual |-> -1, expected |-> -1,
     index |-> -1, context |-> <<>>]

\* throw new Error(`${prefix}: ${error.message}`) in a catch block
Rethrow(r, prefix) ==
    Throw([r.error EXCEPT !.name = "Error", !.context = <<prefix>> \o @])

(***************************************************************************)
(* BlurhashDecoder.                                                         *)
(***************************************************************************)
BASE83_CHARS ==
    <<"0", "1", "2", "3", "4", "5", "6", "7", "8", "9", "A", "B",
      "C", "D", "E", "F", "G", "H", "I", "J", "K", "L", "M", "N",
      "O", "P", "Q", "R", "S", "T", "U", "V", "W", "X", "Y", "Z",
      "a", "b", "c", "d", "e", "f", "g", "h", "i", "j", "k", "l",
      "m", "n", "o", "p", "q", "r", "s", "t", "u", "v", "w", "x",
      "y", "z", "#", "$", "%", "*", "+", ",", "-", ".", ":", ";",
      "=", "?", "@", "[", "]", "^", "_", "{", "|", "}", "~" >>

\* Array.prototype.indexOf: the position (from 0) of the first element equal
\* to c, or -1
indexOf(array, c) ==
    IF \E k \in 1..Len(array) : array[k] = c
    THEN Min({k \in 1..Len(array) : array[k] = c}) - 1
    ELSE -1

\* the digits decode83 looks up for the characters of str, in order
Digits(str) == [k \in 1..Len(str) |-> indexOf(BASE83_CHARS, str[k])]

RECURSIVE decode83FromUnchecked(_, _, _)
\* Variant of decode83From without the test of the digit.
decode83FromUnchecked(str, k, v) ==
    IF k > Len(str) THEN v
    ELSE decode83FromUnchecked(str, k + 1, v * 83 + str[k])

RECURSIVE decode83From(_, _, _)
\* value after folding the symbols k..Len(str) into v; -1 when a symbol is
\* outside the alphabet
decode83From(str, k, v) ==
    IF k > Len(str) THEN v
    ELSE IF str[k] < 0 \/ str[k] > 82 THEN -1
    ELSE decode83From(str, k + 1, v * 83 + str[k])

decode83(str) ==
    LET value == decode83From(str, 1, 0) IN
    IF value < 0 THEN Throw(Error("ValidationError", "Invalid base83 character"))
    ELSE Return(value)

numYOf(sizeFlag) == (sizeFlag \div 9) + 1

numXOf(sizeFlag) == (sizeFlag % 9) + 1

\* if (blurhash.length !== 4 + 2 * numX * numY) throw ...
checkLength(blurhash, sizeFlag) ==
    IF sizeFlag.threw THEN sizeFlag
    ELSE LET expected == 4 + 2 * numXOf(sizeFlag.value) * numYOf(sizeFlag.value) IN
         IF Len(blurhash) # expected
         THEN Throw([Error("ValidationError", "blurhash length mismatch")
                       EXCEPT !.actual = Len(blurhash), !.expected = expected])
         ELSE Return("void")

\* Variant of checkLength without the comparison of the lengths.
skipLength(blurhash, sizeFlag) ==
    IF sizeFlag.threw THEN sizeFlag ELSE Return("void")

\* Variant of validateBlurhash without the comparison of the lengths.
validateBlurhashWithoutLength(blurhash) ==
    IF Len(blurhash) < 6
    THEN Throw(Error("ValidationError",
                     "The blurhash string must be at least 6 characters"))
    ELSE skipLength(blurhash, decode83(<<blurhash[1]>>))

validateBlurhash(blurhash) ==
    IF Len(blurhash) < 6
    THEN Throw(Error("ValidationError",
                     "The blurhash string must be at least 6 characters"))
    ELSE checkLength(blurhash, decode83(<<blurhash[1]>>))

\* {result, errorReason} for the outcome v of validateBlurhash
Validity(v) ==
    IF v.threw THEN [result |-> FALSE, errorReason |-> v.error]
    ELSE [result |-> TRUE, errorReason |-> "none"]

isBlurhashValid(blurhash) == Validity(validateBlurhash(blurhash))

isValidBlurhash(hash) == isBlurhashValid(hash).result

\* punch and scaleFactor are counted in tenths: 10 is 1.0
PunchUnit == 10

RECURSIVE GCD(_, _)
GCD(a, b) == IF b = 0 THEN a ELSE GCD(b, a % b)

\* the fraction n / d in lowest terms (0 is 0 / 1)
Frac(n, d) ==
    LET g == GCD(Abs(n), d) IN [n |-> n \div g, d |-> d \div g]

Mul(a, b) == Frac(a.n * b.n, a.d * b.d)

\* |a| >= |b| for fractions with positive denominators
MagnitudeAtLeast(a, b) == Abs(a.n) * b.d >= Abs(b.n) * a.d

RECURSIVE Pow(_, _)
Pow(b, e) == IF e = 0 THEN 1 ELSE b * Pow(b, e - 1)

sign(n) == IF n < 0 THEN -1 ELSE 1

\* sign(val) * |val|^exp, for a fraction val and a whole exponent
signPow(val, exp) == Frac(sign(val.n) * Pow(Abs(val.n), exp), Pow(val.d, exp))

\* The transfer functions work in floating point (Math.pow); their values
\* are kept as terms.
sRGBToLinear(value) == [fn |-> "sRGBToLinear", of |-> value]

decodeDC(value) ==
    LET intR == value \div 65536
        intG == (value \div 256) % 256
        intB == value % 256
    IN  <<sRGBToLinear(intR), sRGBToLinear(intG), sRGBToLinear(intB)>>

decodeAC(value, maximumValue) ==
    LET quantR == value \div (19 * 19)
        quantG == (value \div 19) % 19
        quantB == value % 19
    IN  <<Mul(signPow(Frac(quantR - 9, 9), 2), maximumValue),
          Mul(signPow(Frac(quantG - 9, 9), 2), maximumValue),
          Mul(signPow(Frac(quantB - 9, 9), 2), maximumValue)>>

\* blurhash.substring(2, 6) for component 0, substring(4 + 2i, 6 + 2i) for
\* component i > 0 (positions from 1 here)
Chunk(blurhash, i) ==
    IF i = 0 THEN SubSeq(blurhash, 3, 6) ELSE SubSeq(blurhash, 5 + 2 * i, 6 + 2 * i)

\* Variant of decodeColors that divides the detail terms by punch.
decodeColorsDividingByPunch(blurhash, punch) ==
    LET p == IF punch = 0 THEN PunchUnit ELSE punch
        sizeFlag == decode83(<<blurhash[1]>>).value
        quantisedMaximumValue == decode83(<<blurhash[2]>>).value
        maximumValue == Frac(quantisedMaximumValue + 1, 166)
    IN  [i \in 0..(numXOf(sizeFlag) * numYOf(sizeFlag) - 1) |->
            IF i = 0 THEN decodeDC(decode83(Chunk(blurhash, 0)).value)
            ELSE decodeAC(decode83(Chunk(blurhash, i)).value,
                          Mul(maximumValue, Frac(PunchUnit, p)))]

\* Variant of decodeColors that leaves punch out of the detail terms.
decodeColorsWithoutPunch(blurhash, punch) ==
    LET sizeFlag == decode83(<<blurhash[1]>>).value
        quantisedMaximumValue == decode83(<<blurhash[2]>>).value
        maximumValue == Frac(quantisedMaximumValue + 1, 166)
    IN  [i \in 0..(numXOf(sizeFlag) * numYOf(sizeFlag) - 1) |->
            IF i = 0 THEN decodeDC(decode83(Chunk(blurhash, 0)).value)
            ELSE decodeAC(decode83(Chunk(blurhash, i)).value, maximumValue)]

\* The colors array decode builds for a string that passed validation and
\* whose symbols are all in the alphabet.  punch is in tenths; p is its
\* value after punch = punch || 1.
decodeColors(blurhash, punch) ==
    LET p == IF punch = 0 THEN PunchUnit ELSE punch
        sizeFlag == decode83(<<blurhash[1]>>).value
        quantisedMaximumValue == decode83(<<blurhash[2]>>).value
        maximumValue == Frac(quantisedMaximumValue + 1, 166)
    IN  [i \in 0..(numXOf(sizeFlag) * numYOf(sizeFlag) - 1) |->
            IF i = 0 THEN decodeDC(decode83(Chunk(blurhash, 0)).value)
            ELSE decodeAC(decode83(Chunk(blurhash, i)).value,
                          Mul(maximumValue, Frac(p, PunchUnit)))]

\* new Uint8Array(bytesPerRow * height): the length, or -1 for the
\* RangeError of a negative or infinite length (NaN gives length 0)
AllocatedLength(width, height) ==
    CASE height.k = "nan" -> 0
      [] height.k = "inf" -> IF width = 0 THEN 0 ELSE -1
      [] OTHER -> IF 4 * width * height.v < 0 THEN -1 ELSE 4 * width * height.v

\* A Uint8Array of the decoder is kept by what determines its bytes: its
\* length and the width and height the loops of decode ran over.
Uint8Array(length, width, height) ==
    [length |-> length, width |-> width, height |-> height]

\* Variant of PixelByte that never writes the alpha byte.
PixelByteWithoutAlpha(k, width, height) ==
    IF width > 0 /\ height.k = "num" /\ height.v > 0 /\ k % 4 # 3
    THEN [fn |-> "linearTosRGB", x |-> (k % (4 * width)) \div 4,
          y |-> k \div (4 * width), channel |-> k % 4]
    ELSE 0

\* The byte decode leaves at index k.  The loops run over 0 <= y < height
\* and 0 <= x < width; a byte they do not reach keeps the 0 it was allocated
\* with.  A colour byte is the value linearTosRGB gives for the sum of the
\* basis terms at the pixel, kept as a term.
PixelByte(k, width, height) ==
    IF width > 0 /\ height.k = "num" /\ height.v > 0
    THEN IF k % 4 = 3 THEN 255
         ELSE [fn |-> "linearTosRGB", x |-> (k % (4 * width)) \div 4,
               y |-> k \div (4 * width), channel |-> k % 4]
    ELSE 0

\* pixels[index]
ByteAt(pixels, index) == PixelByte(index, pixels.width, pixels.height)

\* the bytes of the buffer, by index
Bytes(pixels) == [k \in 0..(pixels.length - 1) |-> ByteAt(pixels, k)]

RECURSIVE readChunks(_, _, _)
\* decode83 of the chunks of components i .. n - 1, in order: the first
\* exception, or nothing
readChunks(blurhash, i, n) ==
    IF i >= n THEN Return("void")
    ELSE IF decode83(Chunk(blurhash, i)).threw THEN decode83(Chunk(blurhash, i))
    ELSE readChunks(blurhash, i + 1, n)

\* the symbols decode reads after validation: the quantised maximum value,
\* then the chunks
readSymbols(blurhash) ==
    IF decode83(<<blurhash[2]>>).threw THEN decode83(<<blurhash[2]>>)
    ELSE readChunks(blurhash, 0, numXOf(blurhash[1]) * numYOf(blurhash[1]))

\* new Uint8Array(bytesPerRow * height) and the loops over the pixels
allocate(width, height, length) ==
    IF length < 0 THEN Throw(Error("RangeError", "Invalid typed array length"))
    ELSE Return(Uint8Array(length, width, height))

\* decode once the symbols have been read
decodePixels(width, height, read) ==
    IF read.threw THEN read
    ELSE allocate(width, height, AllocatedLength(width, height))

\* decode once validateBlurhash has run
decodeValidated(blurhash, width, height, valid) ==
    IF valid.threw THEN valid
    ELSE decodePixels(width, height, readSymbols(blurhash))

\* decode(blurhash, width, height, punch): width a whole number, height a
\* number that may be NaN or Infinity, punch in tenths.  punch changes the
\* colours (decodeColors), not the outcome or the size of the buffer.
decode(blurhash, width, height, punch) ==
    decodeValidated(blurhash, width, height, validateBlurhash(blurhash))

(***************************************************************************)
(* BlurhashCssConverter.                                                    *)
(***************************************************************************)
\* Variant of getRoundedPercentageOf that cuts the fraction off.
getRoundedPercentageOfTruncating(part, whole) ==
    IF whole = 0 THEN 0 ELSE (100 * part) \div whole

getRoundedPercentageOf(part, whole) ==
    IF whole = 0 THEN 0 ELSE RoundDiv(100 * part, whole)

getPixel(pixelBytes, x, y, width, channelIndex) ==
    LET index == 4 * x + channelIndex + y * (width * 4) IN
    IF index >= pixelBytes.length
    THEN Throw(Error("Error", "Pixel index out of bounds"))
    ELSE Return(ByteAt(pixelBytes, index))

\* {r, g, b} of the three getPixel calls, or the first exception
RgbOf(r, g, b) ==
    IF r.threw THEN r
    ELSE IF g.threw THEN g
    ELSE IF b.threw THEN b
    ELSE Return([r |-> r.value, g |-> g.value, b |-> b.value])

getRgbColor(pixelBytes, x, y, width) ==
    RgbOf(getPixel(pixelBytes, x, y, width, 0),
          getPixel(pixelBytes, x, y, width, 1),
          getPixel(pixelBytes, x, y, width, 2))

\* try { return r } catch (error) { throw new Error(`${prefix}: ...`) }
Rethrown(r, prefix) == IF r.threw THEN Rethrow(r, prefix) ELSE r

blurhashToBytes(hash, width, height, punch) ==
    Rethrown(decode(hash, width, height, punch), "Failed to decode BlurHash")

\* One colour stop of a row: rgb(r,g,b) with its start and end percentages
\* (<<>> where the code writes none).
ColorStop(pixelBytes, x, y, width) ==
    [rgb |-> getRgbColor(pixelBytes, x, y, width).value,
     startPercent |-> IF x = 0 THEN <<>>
                      ELSE <<getRoundedPercentageOf(x, width)>>,
     endPercent |-> IF x = width - 1 THEN <<>>
                    ELSE <<getRoundedPercentageOf(x + 1, width)>>]

\* The rows the loop over y runs through: none when height is NaN.
RowsOf(height) == IF height.k = "num" /\ height.v > 0 THEN height.v ELSE 0

\* The struct blurhashToCssStruct returns is kept by what determines it: the
\* pixels and the options.  BlurhashCss below gives its properties.
CssFrom(pixelBytes, options) == [pixelBytes |-> pixelBytes, options |-> options]

\* The getRgbColor calls of the loops: the index grows with x and y, so that
\* a pixel is out of bounds only if the last one is.
readPixels(pixelBytes, width, rows) ==
    IF rows > 0 /\ width > 0
    THEN getRgbColor(pixelBytes, width - 1, rows - 1, width)
    ELSE Return("void")

\* the loops and the return statement of blurhashToCssStruct
structOfPixels(pixelBytes, options, read) ==
    IF read.threw THEN read ELSE Return(CssFrom(pixelBytes, options))

\* blurhashToCssStruct once blurhashToBytes has run
structOfBytes(decoded, options) ==
    IF decoded.threw THEN decoded
    ELSE structOfPixels(decoded.value, options,
                        readPixels(decoded.value, options.width,
                                   RowsOf(options.height)))

\* Variant of blurhashToCssStruct without the test of width and height.
blurhashToCssStructUnchecked(hash, options) ==
    IF hash = <<>>
    THEN Throw(Error("Error", "Invalid BlurHash: must be a non-empty string"))
    ELSE structOfBytes(blurhashToBytes(hash, options.width, options.height,
                                       options.punch),
                       options)

\* options: width (a whole number), height (may be NaN or Infinity),
\* blurRadius (px), scaleFactor and punch (tenths).
blurhashToCssStruct(hash, options) ==
    IF hash = <<>>
    THEN Throw(Error("Error", "Invalid BlurHash: must be a non-empty string"))
    ELSE IF options.width <= 0 \/ LessEqZero(options.height)
    THEN Throw(Error("Error", "Width and height must be positive numbers"))
    ELSE structOfBytes(blurhashToBytes(hash, options.width, options.height,
                                       options.punch),
                       options)

\* Variant of BlurhashCss that gives the rows after the first one position.
BlurhashCssMergingRows(css) ==
    LET width == css.options.width
        height == css.options.height
        rows == RowsOf(height)
    IN  [backgroundImage |->
            [y \in 1..rows |->
                [x \in 1..width |-> ColorStop(css.pixelBytes, x - 1, y - 1, width)]],
         backgroundPosition |->
            [y \in 1..(IF rows > 1 THEN 2 ELSE rows) |->
                IF y = 1 THEN <<0, 0, "">> ELSE <<0, 100, "%">>],
         backgroundRepeat |-> "no-repeat",
         backgroundSize |-> [width |-> "100%", height |-> <<100, height>>],
         filter |-> [blur |-> css.options.blurRadius],
         transform |-> [scale |-> css.options.scaleFactor]]

\* The properties of the struct, as the loops over y and x and the return
\* statement of blurhashToCssStruct build them.  backgroundImage is the list
\* of row gradients that the code joins with ",", each the list of its colour
\* stops; backgroundPosition the list of positions, <<0, 0, "">> standing for
\* "0 0" and <<0, p, "%">> for "0 p%"; backgroundSize is 100% wide and
\* 100 / height % high.
BlurhashCss(css) ==
    LET width == css.options.width
        height == css.options.height
        rows == RowsOf(height)
    IN  [backgroundImage |->
            [y \in 1..rows |->
                [x \in 1..width |-> ColorStop(css.pixelBytes, x - 1, y - 1, width)]],
         backgroundPosition |->
            [y \in 1..rows |->
                IF y = 1 THEN <<0, 0, "">>
                ELSE <<0, getRoundedPercentageOf(y - 1, height.v - 1), "%">>],
         backgroundRepeat |-> "no-repeat",
         backgroundSize |-> [width |-> "100%", height |-> <<100, height>>],
         filter |-> [blur |-> css.options.blurRadius],
         transform |-> [scale |-> css.options.scaleFactor]]

\* JSON.stringify(value, null, 2): the text, kept as the value it encodes
Stringify(value) == [json |-> value]

\* try { return JSON.stringify(r, null, 2) } catch (error) { throw ... }
Stringified(r, prefix) ==
    IF r.threw THEN Rethrow(r, prefix) ELSE Return(Stringify(r.value))

\* the options blurhashToCss and blurhashesToCss pass: punch is left out and
\* takes its default 1.0
Options(width, height, blurRadius, scaleFactor) ==
    [width |-> width, height |-> height, blurRadius |-> blurRadius,
     scaleFactor |-> scaleFactor, punch |-> PunchUnit]

blurhashToCss(hash, width, height, blurRadius, scaleFactor) ==
    Stringified(
        blurhashToCssStruct(hash, Options(width, height, blurRadius, scaleFactor)),
        "Failed to convert BlurHash to CSS")

\* the error thrown from the callback of hashes.map for the member at index
AtIndex(r, index) ==
    Throw([Rethrow(r, "Failed to process BlurHash at index").error
              EXCEPT !.index = index])

\* Variant of the map that goes on after a member failed: the error is that
\* of the last member that fails.
LastFailure(r, index, rest) ==
    IF rest.threw THEN rest
    ELSE IF r.threw THEN AtIndex(r, index)
    ELSE rest

RECURSIVE MapReportingLast(_, _, _, _)
MapReportingLast(hashes, k, options, done) ==
    IF k > Len(hashes) THEN Return(done)
    ELSE LastFailure(blurhashToCssStruct(hashes[k], options), k - 1,
                     MapReportingLast(hashes, k + 1, options, done))

RECURSIVE MapFrom(_, _, _, _)
\* the callback of hashes.map for member k, r being what blurhashToCssStruct
\* gave for it, and the map of the members after it
MapMember(hashes, k, options, done, r) ==
    IF r.threw THEN AtIndex(r, k - 1)
    ELSE MapFrom(hashes, k + 1, options, Append(done, r.value))

\* hashes.map(...) from member k on (members are numbered from 1 here, the
\* index in the message from 0): the first member that fails ends the map.
MapFrom(hashes, k, options, done) ==
    IF k > Len(hashes) THEN Return(done)
    ELSE MapMember(hashes, k, options, done,
                   blurhashToCssStruct(hashes[k], options))

blurhashesToCss(hashes, width, height, blurRadius, scaleFactor) ==
    Stringified(
        MapFrom(hashes, 1, Options(width, height, blurRadius, scaleFactor), <<>>),
        "Failed to convert BlurHashes to CSS")

blurhashToCssObject(hash, options) == blurhashToCssStruct(hash, options)

(***************************************************************************)
(* blurest-core: file validation, the BlurhashCore class and the native    *)
(* addon it calls, and the markdown-it plugin that renders image tokens    *)
(* with it.  A string of these programs is a sequence of characters.       *)
(***************************************************************************)
Max(S) == CHOOSE x \in S : \A y \in S : x >= y

\* str.startsWith(prefix)
startsWith(str, prefix) ==
    Len(prefix) <= Len(str) /\ SubSeq(str, 1, Len(prefix)) = prefix

\* isNetworkUrl: /^https?:\/\//.test(src)
isNetworkUrl(src) ==
    \/ startsWith(src, <<"h", "t", "t", "p", ":", "/", "/">>)
    \/ startsWith(src, <<"h", "t", "t", "p", "s", ":", "/", "/">>)

\* path.isAbsolute (POSIX)
isAbsolute(p) == Len(p) > 0 /\ p[1] = "/"

RECURSIVE Split(_, _, _, _)
\* the segments of p between its slashes, from character k on; cur is the
\* segment being read and acc the segments read
Split(p, k, cur, acc) ==
    IF k > Len(p) THEN (IF cur = <<>> THEN acc ELSE Append(acc, cur))
    ELSE IF p[k] = "/"
    THEN Split(p, k + 1, <<>>, IF cur = <<>> THEN acc ELSE Append(acc, cur))
    ELSE Split(p, k + 1, Append(cur, p[k]), acc)

RECURSIVE Collapse(_, _, _)
\* the segments of an absolute path with "." dropped and ".." applied
Collapse(segs, k, out) ==
    IF k > Len(segs) THEN out
    ELSE IF segs[k] = <<".">> THEN Collapse(segs, k + 1, out)
    ELSE IF segs[k] = <<".", ".">>
    THEN Collapse(segs, k + 1, IF out = <<>> THEN out ELSE SubSeq(out, 1, Len(out) - 1))
    ELSE Collapse(segs, k + 1, Append(out, segs[k]))

RECURSIVE Join(_, _)
Join(segs, k) == IF k > Len(segs) THEN <<>> ELSE <<"/">> \o segs[k] \o Join(segs, k + 1)

\* the segments of the absolute path p after normalisation
SegmentsOf(p) == Collapse(Split(p, 1, <<>>, <<>>), 1, <<>>)

Rooted(text) == IF text = <<>> THEN <<"/">> ELSE text

\* path.normalize of an absolute path: a trailing slash is kept
normalize(p) ==
    IF Len(p) > 1 /\ p[Len(p)] = "/" /\ SegmentsOf(p) # <<>>
    THEN Join(SegmentsOf(p), 1) \o <<"/">>
    ELSE Rooted(Join(SegmentsOf(p), 1))

\* path.resolve(from, to) for an absolute from: no trailing slash is kept
resolve(from, to) ==
    IF isAbsolute(to) THEN Rooted(Join(SegmentsOf(to), 1))
    ELSE Rooted(Join(SegmentsOf(from \o <<"/">> \o to), 1))

\* The file system the programs run on: regular files and directories, by
\* absolute path.
Files ==
    { <<"/", "p", "/", "a">>, <<"/", "p", "/", "s", "/", "a">>,
      <<"/", "p", "q", "/", "a">>, <<"/", "q", "/", "a">> }

Directories ==
    { <<"/">>, <<"/", "p">>, <<"/", "p", "/", "d">>, <<"/", "p", "/", "s">>,
      <<"/", "p", "q">>, <<"/", "q">> }

\* fs.existsSync and fs.statSync(p).isFile() of an absolute path
existsSync(p) == resolve(<<"/">>, p) \in Files \cup Directories

isFile(p) == resolve(<<"/">>, p) \in Files

\* validateFile once the path is resolved
validateResolved(resolvedPath, projectRoot) ==
    IF ~startsWith(normalize(resolvedPath), normalize(projectRoot))
    THEN [shouldProcess |-> FALSE, reason |-> "File is outside project root"]
    ELSE IF ~existsSync(resolvedPath)
    THEN [shouldProcess |-> FALSE, reason |-> "File does not exist"]
    ELSE IF ~isFile(resolvedPath)
    THEN [shouldProcess |-> FALSE, reason |-> "Path is not a file"]
    ELSE [shouldProcess |-> TRUE, reason |-> "none"]

validateFile(src, projectRoot) ==
    IF isNetworkUrl(src)
    THEN [shouldProcess |-> FALSE, reason |-> "Network URL detected"]
    ELSE validateResolved(IF isAbsolute(src) THEN src ELSE resolve(projectRoot, src),
                          projectRoot)

Whitespace == {" "}

DecimalDigits == <<"0", "1", "2", "3", "4", "5", "6", "7", "8", "9">>

DigitChars == {DecimalDigits[k] : k \in 1..Len(DecimalDigits)}

\* the first position from k on that holds no character of set (Len + 1 when
\* there is none)
SkipWhile(str, k, set) ==
    Min({j \in k..(Len(str) + 1) : j = Len(str) + 1 \/ str[j] \notin set})

\* the position after the last character before k that is not in set
SkipBack(str, k, set) ==
    Max({j \in 1..k : j = 1 \/ str[j - 1] \notin set})

\* str.trim()
trim(str) ==
    LET first == SkipWhile(str, 1, Whitespace) IN
    IF first > Len(str) THEN <<>>
    ELSE SubSeq(str, first, SkipBack(str, Len(str) + 1, Whitespace) - 1)

\* src.match(/\s*=\s*(\d*)x(\d*)\s*$/): the "=" of a match is the last one of
\* the string; index is where the match starts
sizeMatch(src) ==
    LET eqs == {k \in 1..Len(src) : src[k] = "="}
        e == IF eqs = {} THEN 0 ELSE Max(eqs)
        a == SkipWhile(src, e + 1, Whitespace)
        b == SkipWhile(src, a, DigitChars)
        c == SkipWhile(src, b + 1, DigitChars)
        d == SkipWhile(src, c, Whitespace)
    IN  IF eqs # {} /\ b <= Len(src) /\ src[b] = "x" /\ d = Len(src) + 1
        THEN [matched |-> TRUE, index |-> SkipBack(src, e, Whitespace),
              width |-> SubSeq(src, a, b - 1), height |-> SubSeq(src, b + 1, c - 1)]
        ELSE [matched |-> FALSE, index |-> 0, width |-> <<>>, height |-> <<>>]

RECURSIVE parseInt(_, _)
\* parseInt(str, 10) of the first n characters of a string of digits
parseInt(str, n) ==
    IF n = 0 THEN 0
    ELSE 10 * parseInt(str, n - 1) + indexOf(DecimalDigits, str[n])

\* a render dimension: -1 is null
NullSize == -1

sizeOf(str) == IF str = <<>> THEN NullSize ELSE parseInt(str, Len(str))

parseImageSrcFrom(src, match) ==
    IF ~match.matched \/ (match.width = <<>> /\ match.height = <<>>)
    THEN [cleanSrc |-> src, renderWidth |-> NullSize, renderHeight |-> NullSize]
    ELSE [cleanSrc |-> trim(SubSeq(src, 1, match.index - 1)),
          renderWidth |-> sizeOf(match.width), renderHeight |-> sizeOf(match.height)]

parseImageSrc(src) == parseImageSrcFrom(src, sizeMatch(src))

\* md.utils.escapeHtml
escapedChar(c) ==
    CASE c = "&" -> <<"&", "a", "m", "p", ";">>
      [] c = "<" -> <<"&", "l", "t", ";">>
      [] c = ">" -> <<"&", "g", "t", ";">>
      [] c = "\"" -> <<"&", "q", "u", "o", "t", ";">>
      [] OTHER -> <<c>>

RECURSIVE escapeHtmlFrom(_, _)
escapeHtmlFrom(str, k) ==
    IF k > Len(str) THEN <<>> ELSE escapedChar(str[k]) \o escapeHtmlFrom(str, k + 1)

escapeHtml(str) == escapeHtmlFrom(str, 1)

\* no staticFileMapping option
NoMapping == [configured |-> FALSE, staticDir |-> <<>>, urlPrefixes |-> <<>>]

\* resolveImagePath: the file under staticDir if it exists, else the source
mapped(imageSrc, resolvedPath) ==
    IF existsSync(resolvedPath) THEN resolvedPath ELSE imageSrc

resolveImagePath(imageSrc, staticMapping) ==
    IF \/ ~staticMapping.configured
       \/ startsWith(imageSrc, <<"h", "t", "t", "p", ":", "/", "/">>)
       \/ startsWith(imageSrc, <<"h", "t", "t", "p", "s", ":", "/", "/">>)
    THEN imageSrc
    ELSE IF Len(staticMapping.urlPrefixes) = 0
    THEN mapped(imageSrc,
                resolve(staticMapping.staticDir,
                        IF startsWith(imageSrc, <<"/">>)
                        THEN SubSeq(imageSrc, 2, Len(imageSrc)) ELSE imageSrc))
    ELSE LET matching == {k \in 1..Len(staticMapping.urlPrefixes) :
                            startsWith(imageSrc, staticMapping.urlPrefixes[k])}
         IN  IF matching = {} THEN imageSrc
             ELSE mapped(imageSrc,
                         resolve(staticMapping.staticDir,
                                 SubSeq(imageSrc,
                                        Len(staticMapping.urlPrefixes[Min(matching)]) + 1,
                                        Len(imageSrc))))

(***************************************************************************)
(* BlurhashCore.  A method maps a record K, the state it can read and      *)
(* write, to the state it leaves and its outcome.  K.native lists the      *)
(* functions of the native addon called so far in the call.  What the      *)
(* native function answers is an argument: "true", "false" or "throw" for  *)
(* initialize_blurhash_cache and clear_context, a result for get_blurhash. *)
(***************************************************************************)
Done(K, out) == [K |-> K, out |-> out]

\* the null of processImage and the results of get_blurhash
NullResult == [kind |-> "null", blurhash |-> "", width |-> 0, height |-> 0]

SuccessResult == [kind |-> "success", blurhash |-> "LEHV6nWB2yk8", width |-> 400, height |-> 300]

ErrorResult == [kind |-> "error", blurhash |-> "", width |-> 0, height |-> 0]

initialize(K, c, answer) ==
    IF K.cores[c].options.databaseUrl = "" \/ K.cores[c].options.projectRoot = <<>>
    THEN Done(K, Throw(Error("Error", "databaseUrl and projectRoot options are required")))
    ELSE IF answer = "true"
    THEN Done([K EXCEPT !.native = Append(@, "initialize_blurhash_cache"),
                        !.addon.initialized = TRUE,
                        !.cores[c].initialized = TRUE],
              Return("void"))
    ELSE Done([K EXCEPT !.native = Append(@, "initialize_blurhash_cache")],
              Throw(Error("Error", "Initialization failed.")))

\* Variant of processImage without the test of the initialized flag.
processImageUnguarded(K, c, src, answer) ==
    IF ~validateFile(src, K.cores[c].options.projectRoot).shouldProcess
    THEN Done(K, Return(NullResult))
    ELSE Done([K EXCEPT !.native = Append(@, "get_blurhash")], Return(answer))

processImage(K, c, src, answer) ==
    IF ~K.cores[c].initialized
    THEN Done(K, Throw(Error("Error", "Core not initialized. Call initialize() first.")))
    ELSE IF ~validateFile(src, K.cores[c].options.projectRoot).shouldProcess
    THEN Done(K, Return(NullResult))
    ELSE Done([K EXCEPT !.native = Append(@, "get_blurhash")], Return(answer))

cleanup(K, c, answer) ==
    IF answer = "throw"
    THEN Done([K EXCEPT !.native = Append(@, "clear_context")], Return(FALSE))
    ELSE Done([K EXCEPT !.native = Append(@, "clear_context"),
                        !.addon.initialized = IF answer = "true" THEN FALSE ELSE @,
                        !.cores[c].initialized = FALSE],
              Return(answer = "true"))

(***************************************************************************)
(* The markdown-it plugin.                                                 *)
(***************************************************************************)
Attr(name, value) == [name |-> name, value |-> value]

\* width="..." and height="..." when the render size is given
sizeAttrs(widthName, heightName, renderWidth, renderHeight) ==
    (IF renderWidth # NullSize THEN <<Attr(widthName, renderWidth)>> ELSE <<>>)
    \o (IF renderHeight # NullSize THEN <<Attr(heightName, renderHeight)>> ELSE <<>>)

NoElement == [by |-> "none", tag |-> "none", attrs |-> <<>>]

\* what md's own image rule emits
defaultImageRenderer == [by |-> "defaultImageRenderer", tag |-> "img", attrs |-> <<>>, inner |-> NoElement]

renderFallbackImg(src, alt, renderWidth, renderHeight) ==
    [by |-> "renderFallbackImg", tag |-> "img",
     attrs |-> <<Attr("src", escapeHtml(src)), Attr("alt", escapeHtml(alt))>>
               \o sizeAttrs("width", "height", renderWidth, renderHeight),
     inner |-> NoElement]

renderAxBlurestComponent(src, alt, renderWidth, renderHeight, result) ==
    [by |-> "renderAxBlurestComponent", tag |-> "ax-blurest",
     attrs |-> <<Attr("src-width", result.width), Attr("src-height", result.height),
                 Attr("alt", escapeHtml(alt)), Attr("src", escapeHtml(src)),
                 Attr("blurhash", result.blurhash)>>
               \o sizeAttrs("render-width", "render-height", renderWidth, renderHeight),
     inner |-> [by |-> "renderAxBlurestComponent", tag |-> "img",
                attrs |-> sizeAttrs("width", "height", renderWidth, renderHeight)
                          \o <<Attr("alt", escapeHtml(alt)), Attr("src", escapeHtml(src))>>]]

\* axBlurestPlugin(md, options): the core of the plugin is core c
axBlurestPluginOn(c, staticFileMapping, initialized) ==
    IF initialized.out.threw THEN initialized
    ELSE Done([initialized.K EXCEPT
                 !.plugin = [installed |-> TRUE, core |-> c, handle |-> c,
                             staticFileMapping |-> staticFileMapping]],
              Return("void"))

axBlurestPlugin(K, c, staticFileMapping, answer) ==
    axBlurestPluginOn(c, staticFileMapping, initialize(K, c, answer))

cleanupAxBlurestOn(cleaned) ==
    Done([cleaned.K EXCEPT !.plugin.handle = 0], cleaned.out)

cleanupAxBlurest(K, answer) ==
    IF K.plugin.handle # 0
    THEN cleanupAxBlurestOn(cleanup(K, K.plugin.handle, answer))
    ELSE Done(K, Return(TRUE))

\* Variant of imageRuleOn that emits the component whatever the result.
imageRuleAlwaysComponent(token, cleanSrc, processed) ==
    IF processed.out.threw THEN processed
    ELSE Done(processed.K,
              Return(renderAxBlurestComponent(cleanSrc, token.alt, token.renderWidth,
                                              token.renderHeight, processed.out.value)))

\* md.renderer.rules.image once processImage has answered
imageRuleOn(token, cleanSrc, processed) ==
    IF processed.out.threw THEN processed
    ELSE IF processed.out.value.kind # "success"
    THEN Done(processed.K,
              Return(renderFallbackImg(cleanSrc, token.alt, token.renderWidth,
                                       token.renderHeight)))
    ELSE Done(processed.K,
              Return(renderAxBlurestComponent(cleanSrc, token.alt, token.renderWidth,
                                              token.renderHeight, processed.out.value)))

imageRuleWith(K, token, cleanSrc, answer) ==
    imageRuleOn(token, cleanSrc,
                processImage(K, K.plugin.core,
                             resolveImagePath(cleanSrc, K.plugin.staticFileMapping),
                             answer))

\* md.renderer.rules.image for the token (token.exists: tokens[idx] is there;
\* token.src = <<>>: no src attribute or an empty one)
imageRule(K, token, answer) ==
    IF ~token.exists \/ token.src = <<>>
    THEN Done(K, Return(defaultImageRenderer))
    ELSE imageRuleWith(K, token, parseImageSrc(token.src).cleanSrc, answer)

(***************************************************************************)
(* The BlurhashCore objects, the native addon and the markdown-it          *)
(* instance before anything is called.                                     *)
(***************************************************************************)
Cores == 1..NumCores

PluginCore == NumCores

projectRoot == <<"/", "p">>

CoreOptions ==
    { [databaseUrl |-> "db", projectRoot |-> projectRoot],
      [databaseUrl |-> "", projectRoot |-> projectRoot] }

NewCore(options) == [initialized |-> FALSE, options |-> options]

NoPlugin == [installed |-> FALSE, core |-> 0, handle |-> 0, staticFileMapping |-> NoMapping]

NoToken == [exists |-> FALSE, src |-> <<>>, alt |-> <<>>, renderWidth |-> NullSize,
            renderHeight |-> NullSize]

NoOp ==
    [fn |-> "none", core |-> 0, src |-> <<>>, token |-> NoToken,
     out |-> Return("none"), native |-> <<>>, result |-> "none"]

(***************************************************************************)
(* State.                                                                  *)
(***************************************************************************)
VARIABLES
    attrs,      \* attrs[i][name]: the attributes of instance i
    attached,   \* attached[i]: instance i is in the document
    visible,    \* visible[i]: the box of instance i overlaps the viewport
    el,         \* el[i]: the fields of the AxBlurest object
    dom,        \* dom[i]: the shadow tree the last render() produced
    observers,  \* the connected IntersectionObservers
    timers,     \* the armed window.setTimeout timers
    fetches,    \* the Image() objects loadImage created, still pending
    settled,    \* the Image() whose callback the last step ran, or NoFetch
    events,     \* the CustomEvents the last step dispatched, in order
    now,        \* Date.now()
    threw,      \* a handler raised an exception to the host
    hist,       \* hist[i]: history of instance i (observation only)
    nchanges,   \* setAttribute calls made so far
    live,       \* the instances that exist in this behaviour
    call,       \* a call of the decoder or the CSS converter: function and arguments
    result,     \* what the call returned or threw (NoResult before it is made)
    colors,     \* the colors array the call of decode built, if it built one
    cores,      \* cores[c]: the fields of BlurhashCore object c
    addon,      \* the global context of the native addon
    plugin,     \* the markdown-it instance: the image rule and the core it holds
    op,         \* the last call made on a core or on the plugin, and its outcome
    ready       \* ready[c]: initialize() has returned on core c and no cleanup()
                \* of it has returned true since (observation only)

vars == <<attrs, attached, visible, el, dom, observers, timers, fetches,
          settled, events, now, threw, hist, nchanges, live, call, result, colors,
          cores, addon, plugin, op, ready>>

coreVars == <<cores, addon, plugin, op, ready>>

\* The fields of a new AxBlurest object (part_002 lines 5-12).
NewElement ==
    [observer |-> Null, isInViewport |-> FALSE, loadingTimer |-> Null,
     loadStartTime |-> Null, isImageLoaded |-> FALSE, isImageError |-> FALSE]

\* The shadow tree: which variant render() wrote, the image layer (dataSrc
\* is NoAttr when there is none), and the classes the handlers toggle.
EmptyRoot ==
    [variant |-> "empty", css |-> "none", dataSrc |-> NoAttr, imgSrc |-> "",
     alt |-> "", width |-> "", hasBackdrop |-> FALSE, hasBlurhashLayer |-> FALSE,
     hasErrorLayer |-> FALSE, loaded |-> FALSE, noAnimation |-> FALSE,
     fadeOut |-> FALSE, debugLoading |-> FALSE, errorVisible |-> FALSE]

\* no Image(): the value of settled after a step that ran no Image() callback
NoFetch ==
    [fid |-> 0, inst |-> 0, src |-> NoAttr, status |-> "none", stale |-> FALSE,
     nodes |-> EmptyRoot, startedAt |-> 0, superseded |-> FALSE]

NewHistory ==
    [wasAttached |-> FALSE,  \* connectedCallback has run
     entered |-> FALSE,      \* a viewport entry has been delivered
     fetched |-> FALSE,      \* a fetch has been initiated
     cancelled |-> FALSE,    \* the last viewport notification was an exit that
                             \* came before any fetch of the instance
     ended |-> FALSE,        \* a fetch has ended since the last attribute change
     reentered |-> FALSE,    \* ... and a viewport entry was delivered after it
     hadSrc |-> FALSE]       \* the src attribute has been given a value

\* The world a handler runs in and returns.  ok turns FALSE when the handler
\* needs a handle beyond the bounds of the model.
World ==
    [attrs |-> attrs, el |-> el, dom |-> dom, observers |-> observers,
     timers |-> timers, fetches |-> fetches, settled |-> NoFetch,
     events |-> <<>>, now |-> now, threw |-> threw, hist |-> hist, ok |-> TRUE]

Becomes(W) ==
    /\ W.ok
    /\ attrs' = W.attrs
    /\ el' = W.el
    /\ dom' = W.dom
    /\ observers' = W.observers
    /\ timers' = W.timers
    /\ fetches' = W.fetches
    /\ settled' = W.settled
    /\ events' = W.events
    /\ threw' = W.threw
    /\ hist' = W.hist
    /\ UNCHANGED <<call, result, colors>>
    /\ UNCHANGED coreVars

(***************************************************************************)
(* render() and generateBlurhashCSS().                                     *)
(***************************************************************************)
\* parseFloat(srcWidth) / parseFloat(srcHeight) as a fraction n / d, NaN
\* or Infinity (the attribute values of the model are not negative)
Quotient(a, b) ==
    IF a.k # "num" \/ b.k # "num" THEN NaN
    ELSE IF b.v = 0 THEN (IF a.v = 0 THEN NaN ELSE Infinity)
    ELSE [k |-> "num", v |-> Frac(a.v, b.v)]

aspectRatioOf(srcWidth, srcHeight) == Quotient(ParseNum(srcWidth), ParseNum(srcHeight))

\* Math.round(size / ratio)
RoundedQuotient(size, ratio) ==
    CASE ratio.k = "nan" -> NaN
      [] ratio.k = "inf" -> Num(0)
      [] OTHER -> IF ratio.v.n = 0 THEN Infinity
                  ELSE Num(RoundDiv(size * ratio.v.d, ratio.v.n))

\* The call of blurhashToCssObject in generateBlurhashCSS.
cssPropertiesFor(blurhash, aspectRatio) ==
    blurhashToCssObject(HashSymbols(blurhash),
        [width |-> baseSize, height |-> RoundedQuotient(baseSize, aspectRatio),
         blurRadius |-> 16, scaleFactor |-> 11, punch |-> 12])

\* Variant of Caught: the exception passes.
Uncaught(cssProperties) ==
    IF cssProperties.threw THEN cssProperties ELSE Return("css")

\* try { ... return the declarations } catch (error) { return the gradient }
Caught(cssProperties) ==
    IF cssProperties.threw THEN Return("gradient") ELSE Return("css")

\* Variant of generateBlurhashCSS without the try / catch.
generateBlurhashCSSWithoutCatch(blurhash, aspectRatio) ==
    IF ~isValidBlurhash(HashSymbols(blurhash)) THEN Return("flat")
    ELSE Uncaught(cssPropertiesFor(blurhash, aspectRatio))

\* What generateBlurhashCSS returns: "flat" ('background-color: #f0f0f0;')
\* for a hash that fails validation, "css" for the declarations made of the
\* generated properties, "gradient" (the animated linear-gradient) from the
\* catch block.
generateBlurhashCSS(blurhash, aspectRatio) ==
    IF ~isValidBlurhash(HashSymbols(blurhash)) THEN Return("flat")
    ELSE Caught(cssPropertiesFor(blurhash, aspectRatio))

\* render() has the data it needs for the placeholder variant
hasCompleteData(a) ==
    Truthy(a["src-width"]) /\ Truthy(a["src-height"]) /\ Truthy(a["blurhash"])

\* the css of the layers, or "threw" when generateBlurhashCSS raised
CssOf(r) == IF r.threw THEN "threw" ELSE r.value

\* The call of generateBlurhashCSS in render().
blurhashCSS(a) ==
    CssOf(generateBlurhashCSS(a["blurhash"],
                              aspectRatioOf(a["src-width"], a["src-height"])))

\* Variant of RenderOf that takes the data for complete without looking at
\* blurhash.
RenderOfIgnoringBlurhash(a) ==
    LET src == a["src"]
        complete == Truthy(a["src-width"]) /\ Truthy(a["src-height"])
        common ==
            [EmptyRoot EXCEPT
                !.dataSrc = IF Truthy(src) THEN src ELSE NoAttr,
                !.alt = IF Truthy(a["alt"]) THEN a["alt"] ELSE "",
                !.width = IF Truthy(a["render-width"]) THEN a["render-width"] ELSE "100%"]
    IN  IF ~complete
        THEN [common EXCEPT !.variant = "fallback"]
        ELSE [common EXCEPT
                !.variant = "placeholder",
                !.css = blurhashCSS(a),
                !.hasBackdrop = TRUE,
                !.hasBlurhashLayer = TRUE,
                !.hasErrorLayer = TRUE]

\* The shadow tree render() writes for the attributes a.
RenderOf(a) ==
    LET src == a["src"]
        common ==
            [EmptyRoot EXCEPT
                !.dataSrc = IF Truthy(src) THEN src ELSE NoAttr,
                !.alt = IF Truthy(a["alt"]) THEN a["alt"] ELSE "",
                !.width = IF Truthy(a["render-width"]) THEN a["render-width"] ELSE "100%"]
    IN  IF ~hasCompleteData(a)
        THEN [common EXCEPT !.variant = "fallback"]
        ELSE [common EXCEPT
                !.variant = "placeholder",
                !.css = blurhashCSS(a),
                !.hasBackdrop = TRUE,
                !.hasBlurhashLayer = TRUE,
                !.hasErrorLayer = TRUE]

\* Nodes that a render has removed from the tree.  Only an Image() callback
\* still reaches them, and it reads nothing of them but which layers exist;
\* their other content is left out.
Detached(root) ==
    [EmptyRoot EXCEPT
        !.variant = root.variant,
        !.hasBackdrop = root.hasBackdrop,
        !.hasBlurhashLayer = root.hasBlurhashLayer,
        !.hasErrorLayer = root.hasErrorLayer]

\* Assigning innerHTML replaces the nodes: an Image() callback created
\* before keeps the nodes it captured, now outside the tree.  An exception
\* out of generateBlurhashCSS would reach the host before the assignment.
Written(W, i, root) ==
    IF root.css = "threw" THEN [W EXCEPT !.threw = TRUE]
    ELSE [W EXCEPT
            !.fetches = {IF f.inst = i /\ ~f.stale
                         THEN [f EXCEPT !.stale = TRUE, !.nodes = Detached(W.dom[i])]
                         ELSE f : f \in W.fetches},
            !.dom[i] = root]

render(W, i) == Written(W, i, RenderOf(W.attrs[i]))

(***************************************************************************)
(* Observer and timer housekeeping.                                        *)
(***************************************************************************)
\* Variant of cleanupObserver that disconnects the observers of every
\* instance, as if the observer were shared between the instances.
cleanupObserverOfAll(W, i) ==
    IF W.el[i].observer # Null
    THEN [W EXCEPT
            !.observers = {},
            !.el = [j \in Inst |-> [@[j] EXCEPT !.observer = Null]]]
    ELSE W

cleanupObserver(W, i) ==
    IF W.el[i].observer # Null
    THEN [W EXCEPT
            !.observers = {o \in @ : ~(o.inst = i /\ o.oid = W.el[i].observer)},
            !.el[i].observer = Null]
    ELSE W

cleanupTimer(W, i) ==
    IF W.el[i].loadingTimer # Null
    THEN [W EXCEPT
            !.timers = {t \in @ : ~(t.inst = i /\ t.tid = W.el[i].loadingTimer)},
            !.el[i].loadingTimer = Null]
    ELSE W

setupIntersectionObserver(W, i) ==
    LET W1 == cleanupObserver(W, i)
        free == {k \in 1..MaxObs : \A o \in W1.observers : ~(o.inst = i /\ o.oid = k)}
    IN  IF free = {} THEN [W1 EXCEPT !.ok = FALSE]
        ELSE [W1 EXCEPT
                !.observers = @ \cup {[inst |-> i, oid |-> Min(free), last |-> "none"]},
                !.el[i].observer = Min(free)]

getDebugDelay(W, i) ==
    LET delayAttr == W.attrs[i]["debug-delay"] IN
    IF Truthy(delayAttr)
    THEN LET delay == ParseNum(delayAttr) IN
         IF delay.k = "nan" THEN DefaultDebugDelay ELSE delay.v
    ELSE DefaultDebugDelay

addDebugIndicator(W, i) ==
    IF W.dom[i].hasBlurhashLayer THEN [W EXCEPT !.dom[i].debugLoading = TRUE] ELSE W

removeDebugIndicator(W, i) ==
    IF W.dom[i].hasBlurhashLayer THEN [W EXCEPT !.dom[i].debugLoading = FALSE] ELSE W

(***************************************************************************)
(* loadImage() and the two callbacks of the Image() it creates.            *)
(***************************************************************************)
\* The nodes the closures of fetch f captured in loadImage: the current
\* tree, or the detached nodes kept in f once a render replaced them.
Captured(W, f) == IF f.stale
    THEN (CHOOSE x \in W.fetches \cup {W.settled} : x.fid = f.fid).nodes
    ELSE W.dom[f.inst]

\* Write to a node the closures of f captured.
SetCaptured(W, f, nodes) ==
    IF f.stale
    THEN [W EXCEPT !.fetches = {IF x.fid = f.fid THEN [x EXCEPT !.nodes = nodes]
                                ELSE x : x \in @}]
    ELSE [W EXCEPT !.dom[f.inst] = nodes]

\* the Image() of fetch f has called back: it is no longer pending
Settle(W, f, status) ==
    LET g == CHOOSE x \in W.fetches : x.fid = f.fid IN
    [W EXCEPT !.fetches = @ \ {g}, !.settled = [g EXCEPT !.status = status]]

dispatchEvent(W, i, type, src) ==
    [W EXCEPT !.events = Append(@, [inst |-> i, type |-> type, src |-> src])]

\* Variant of loadImage without the isImageLoaded / isImageError test.
loadImageUnguarded(W, i) ==
    LET imageLayer == W.dom[i].dataSrc # NoAttr
        src == W.dom[i].dataSrc
        free == {k \in 1..MaxFetch : \A f \in W.fetches : f.fid # k}
    IN  IF ~imageLayer THEN W
        ELSE IF ~Truthy(src) THEN W
        ELSE IF free = {} THEN [W EXCEPT !.ok = FALSE]
        ELSE [W EXCEPT
                !.el[i].loadStartTime = W.now,
                !.fetches = @ \cup
                    {[fid |-> Min(free), inst |-> i, src |-> src, status |-> "pending",
                      stale |-> FALSE, nodes |-> EmptyRoot, startedAt |-> W.now,
                      superseded |-> FALSE]}]

\* Variant of loadImage that does not look for the image layer and its
\* data-src.
loadImageWithoutSource(W, i) ==
    LET src == W.dom[i].dataSrc
        free == {k \in 1..MaxFetch : \A f \in W.fetches : f.fid # k}
    IN  IF W.el[i].isImageLoaded \/ W.el[i].isImageError THEN W
        ELSE IF free = {} THEN [W EXCEPT !.ok = FALSE]
        ELSE [W EXCEPT
                !.el[i].loadStartTime = W.now,
                !.fetches = @ \cup
                    {[fid |-> Min(free), inst |-> i, src |-> src, status |-> "pending",
                      stale |-> FALSE, nodes |-> EmptyRoot, startedAt |-> W.now,
                      superseded |-> FALSE]}]

loadImage(W, i) ==
    LET imageLayer == W.dom[i].dataSrc # NoAttr
        src == W.dom[i].dataSrc
        free == {k \in 1..MaxFetch : \A f \in W.fetches : f.fid # k}
    IN  IF ~imageLayer THEN W
        ELSE IF ~Truthy(src) \/ W.el[i].isImageLoaded \/ W.el[i].isImageError THEN W
        ELSE IF free = {} THEN [W EXCEPT !.ok = FALSE]
        ELSE [W EXCEPT
                !.el[i].loadStartTime = W.now,
                !.fetches = @ \cup
                    {[fid |-> Min(free), inst |-> i, src |-> src, status |-> "pending",
                      stale |-> FALSE, nodes |-> EmptyRoot, startedAt |-> W.now,
                      superseded |-> FALSE]}]

\* Variant of onload that fades the placeholder out only when the
\* cross-fade runs.
onloadFadingOnlyWithAnimation(W, f) ==
    LET i == f.inst
        loadDuration == IF W.el[i].loadStartTime # Null
                        THEN W.now - W.el[i].loadStartTime
                        ELSE UnknownDuration
        blurhashLayer == Captured(W, f).hasBlurhashLayer
        skip == loadDuration < NoAnimationThreshold /\ blurhashLayer
        n0 == Captured(W, f)
        n1 == IF skip THEN [n0 EXCEPT !.noAnimation = TRUE] ELSE n0
        n2 == [n1 EXCEPT !.imgSrc = f.src, !.loaded = TRUE]
        n3 == IF blurhashLayer /\ ~skip THEN [n2 EXCEPT !.fadeOut = TRUE] ELSE n2
        W1 == SetCaptured(W, f, n3)
        W2 == [W1 EXCEPT !.el[i].isImageLoaded = TRUE]
    IN  Settle(dispatchEvent(W2, i, "image-loaded", f.src), f, "loaded")

\* img.onload of fetch f
onload(W, f) ==
    LET i == f.inst
        loadDuration == IF W.el[i].loadStartTime # Null
                        THEN W.now - W.el[i].loadStartTime
                        ELSE UnknownDuration
        blurhashLayer == Captured(W, f).hasBlurhashLayer
        n0 == Captured(W, f)
        n1 == IF loadDuration < NoAnimationThreshold /\ blurhashLayer
              THEN [n0 EXCEPT !.noAnimation = TRUE] ELSE n0
        n2 == [n1 EXCEPT !.imgSrc = f.src, !.loaded = TRUE]
        n3 == IF blurhashLayer THEN [n2 EXCEPT !.fadeOut = TRUE] ELSE n2
        W1 == SetCaptured(W, f, n3)
        W2 == [W1 EXCEPT !.el[i].isImageLoaded = TRUE]
    IN  Settle(dispatchEvent(W2, i, "image-loaded", f.src), f, "loaded")

\* Variant of onerror that only dispatches the event (the handler of the
\* earlier element in blurest-wc/src/CustomElements.ts).
onerrorOnlyDispatching(W, f) ==
    Settle(dispatchEvent(W, f.inst, "image-error", f.src), f, "failed")

\* img.onerror of fetch f
onerror(W, f) ==
    LET i == f.inst
        W1 == [W EXCEPT !.el[i].isImageError = TRUE]
        W2 == IF W1.dom[i].hasErrorLayer
              THEN [W1 EXCEPT !.dom[i].errorVisible = TRUE] ELSE W1
        W3 == IF Captured(W2, f).hasBlurhashLayer
              THEN SetCaptured(W2, f, [Captured(W2, f) EXCEPT !.fadeOut = TRUE])
              ELSE W2
    IN  Settle(dispatchEvent(W3, i, "image-error", f.src), f, "failed")

(***************************************************************************)
(* Viewport handlers.                                                      *)
(***************************************************************************)
\* Variant of handleViewportEntry without the isImageLoaded / isImageError
\* test.
handleViewportEntryUnguarded(W, i) ==
    LET debugMode == W.attrs[i]["debug"] # NoAttr
        debugDelay == getDebugDelay(W, i)
        free == {k \in 1..MaxTimers :
                   \A t \in W.timers : ~(t.inst = i /\ t.tid = k)}
    IN  IF debugMode
        THEN IF free = {} THEN [W EXCEPT !.ok = FALSE]
             ELSE [addDebugIndicator(W, i) EXCEPT
                     !.timers = @ \cup {[inst |-> i, tid |-> Min(free),
                                         due |-> W.now + debugDelay]},
                     !.el[i].loadingTimer = Min(free)]
        ELSE loadImage(W, i)

handleViewportEntry(W, i) ==
    IF W.el[i].isImageLoaded \/ W.el[i].isImageError THEN W
    ELSE LET debugMode == W.attrs[i]["debug"] # NoAttr
             debugDelay == getDebugDelay(W, i)
             free == {k \in 1..MaxTimers :
                        \A t \in W.timers : ~(t.inst = i /\ t.tid = k)}
         IN  IF debugMode
             THEN IF free = {} THEN [W EXCEPT !.ok = FALSE]
                  ELSE [addDebugIndicator(W, i) EXCEPT
                          !.timers = @ \cup {[inst |-> i, tid |-> Min(free),
                                              due |-> W.now + debugDelay]},
                          !.el[i].loadingTimer = Min(free)]
             ELSE loadImage(W, i)

\* the callback window.setTimeout runs when the pending-load timer expires
timerCallback(W, i) == removeDebugIndicator(loadImage(W, i), i)

\* Variant of handleViewportExit that leaves the pending timer armed.
handleViewportExitKeepingTimer(W, i) ==
    IF W.el[i].loadingTimer # Null /\ ~W.el[i].isImageLoaded
    THEN removeDebugIndicator(W, i)
    ELSE W

\* Variant of handleViewportExit that also aborts the fetches of the instance.
handleViewportExitAborting(W, i) ==
    IF W.el[i].loadingTimer # Null /\ ~W.el[i].isImageLoaded
    THEN removeDebugIndicator(
            [W EXCEPT
                !.timers = {t \in @ : ~(t.inst = i /\ t.tid = W.el[i].loadingTimer)},
                !.fetches = {f \in @ : f.inst # i},
                !.el[i].loadingTimer = Null], i)
    ELSE [W EXCEPT !.fetches = {f \in @ : f.inst # i}]

handleViewportExit(W, i) ==
    IF W.el[i].loadingTimer # Null /\ ~W.el[i].isImageLoaded
    THEN removeDebugIndicator(
            [W EXCEPT
                !.timers = {t \in @ : ~(t.inst = i /\ t.tid = W.el[i].loadingTimer)},
                !.el[i].loadingTimer = Null], i)
    ELSE W

\* the IntersectionObserver callback, for one entry
observerCallback(W, i, isIntersecting) ==
    IF isIntersecting /\ ~W.el[i].isInViewport
    THEN handleViewportEntry([W EXCEPT !.el[i].isInViewport = TRUE], i)
    ELSE IF ~isIntersecting /\ W.el[i].isInViewport
    THEN handleViewportExit([W EXCEPT !.el[i].isInViewport = FALSE], i)
    ELSE W

(***************************************************************************)
(* Custom-element lifecycle callbacks.                                     *)
(***************************************************************************)
\* Variant of connectedCallback that loads as soon as the element is
\* attached (the callback of the earlier element in CustomElements.ts).
connectedCallbackLoadingAtOnce(W, i) ==
    setupIntersectionObserver(loadImage(render(W, i), i), i)

connectedCallback(W, i) == setupIntersectionObserver(render(W, i), i)

disconnectedCallback(W, i) == cleanupTimer(cleanupObserver(W, i), i)

attributeChangedCallback(W, i, property, oldValue, newValue) ==
    IF oldValue # newValue
    THEN LET W1 == [W EXCEPT
                      !.el[i].isImageLoaded = FALSE,
                      !.el[i].isImageError = FALSE,
                      !.el[i].loadStartTime = Null]
         IN  IF property = "debug" \/ property = "debug-delay"
             THEN render(W1, i)
             ELSE setupIntersectionObserver(render(W1, i), i)
    ELSE W

(***************************************************************************)
(* Initial states: every instance has been created, with the attributes    *)
(* of one of the configurations below, and is not yet in the document.     *)
(* Creating an element with attributes runs attributeChangedCallback once  *)
(* per attribute, in the order of observedAttributes, before it is         *)
(* attached.                                                               *)
(***************************************************************************)
AttrOrder ==
    <<"src", "src-width", "src-height", "blurhash", "render-width", "alt",
      "debug", "debug-delay">>

Config(src, hash, debug, delay) ==
    [NoAttrs EXCEPT
        !["src"] = src,
        !["src-width"] = IF hash = NoAttr THEN NoAttr ELSE "400",
        !["src-height"] = IF hash = NoAttr THEN NoAttr ELSE "300",
        !["blurhash"] = hash,
        !["debug"] = debug,
        !["debug-delay"] = delay]

InitConfigs ==
    { NoAttrs,
      Config("a.png", NoAttr, NoAttr, NoAttr),
      Config("a.png", "000000", NoAttr, NoAttr),
      Config("a.png", "000000", "", "0"),
      Config("a.png", NoAttr, "", NoAttr) }

RECURSIVE CreateWith(_, _, _, _)
CreateWith(W, i, a, k) ==
    IF k > Len(AttrOrder) THEN W
    ELSE LET name == AttrOrder[k] IN
         IF a[name] = NoAttr THEN CreateWith(W, i, a, k + 1)
         ELSE CreateWith(
                attributeChangedCallback(
                    [W EXCEPT !.attrs[i][name] = a[name],
                              !.hist[i].hadSrc = @ \/ name = "src"],
                    i, name, NoAttr, a[name]),
                i, a, k + 1)

BareWorld ==
    [attrs |-> [i \in Inst |-> NoAttrs], el |-> [i \in Inst |-> NewElement],
     dom |-> [i \in Inst |-> EmptyRoot], observers |-> {}, timers |-> {},
     fetches |-> {}, settled |-> NoFetch, events |-> <<>>, now |-> StartTime, threw |-> FALSE,
     hist |-> [i \in Inst |-> NewHistory], ok |-> TRUE]

\* Every instance created with the attributes cfg[i].  Creating one instance
\* touches nothing of another: each is created on its own and the results
\* are put together.
CreateAll(cfg) ==
    LET Created(i) == CreateWith(BareWorld, i, cfg[i], 1) IN
    [BareWorld EXCEPT
        !.attrs = [i \in Inst |-> Created(i).attrs[i]],
        !.el = [i \in Inst |-> Created(i).el[i]],
        !.dom = [i \in Inst |-> Created(i).dom[i]],
        !.observers = UNION {Created(i).observers : i \in Inst},
        !.timers = UNION {Created(i).timers : i \in Inst},
        !.fetches = UNION {Created(i).fetches : i \in Inst},
        !.threw = \E i \in Inst : Created(i).threw,
        !.hist = [i \in Inst |-> Created(i).hist[i]],
        !.ok = \A i \in Inst : Created(i).ok]

\* no call of the decoder or the converter
NoCall ==
    [fn |-> "none", hash |-> <<>>, hashes |-> <<>>, width |-> 0, height |-> 0,
     punch |-> 0, str |-> <<>>, made |-> FALSE]

NoResult == [threw |-> FALSE, error |-> "none", value |-> "not called"]

\* no core has been initialized and the plugin is not installed
InitCores(options) ==
    /\ cores = [c \in Cores |-> NewCore(options[c])]
    /\ addon = [initialized |-> FALSE]
    /\ plugin = NoPlugin
    /\ op = NoOp
    /\ ready = [c \in Cores |-> FALSE]

DefaultOptions == [c \in Cores |-> [databaseUrl |-> "db", projectRoot |-> projectRoot]]

InitWithConfigs(instances, configs) ==
    /\ live = instances
    /\ call = NoCall
    /\ result = NoResult
    /\ colors = [built |-> FALSE, terms |-> <<>>]
    /\ InitCores(DefaultOptions)
    /\ \E cfg \in [Inst -> configs \cup {NoAttrs}] :
        /\ \A i \in Inst \ instances : cfg[i] = NoAttrs
        /\ LET W == CreateAll(cfg) IN
            /\ W.ok
            /\ attrs = W.attrs
            /\ el = W.el
            /\ dom = W.dom
            /\ observers = W.observers
            /\ timers = W.timers
            /\ fetches = W.fetches
            /\ settled = NoFetch
            /\ events = <<>>
            /\ threw = W.threw
            /\ hist = W.hist
    /\ attached = [i \in Inst |-> FALSE]
    /\ visible = [i \in Inst |-> FALSE]
    /\ now = StartTime
    /\ nchanges = 0

InitWith(instances) == InitWithConfigs(instances, InitConfigs)

Init == InitWith({1})

(***************************************************************************)
(* Actions: the calls the host makes.                                      *)
(***************************************************************************)
Intersecting(i) == attached[i] /\ visible[i]

\* the handler that led from the current state to W initiated a fetch of i
Started(W, i) ==
    Cardinality({f \in W.fetches : f.inst = i}) >
        Cardinality({f \in fetches : f.inst = i})

NoteFetch(W, i) ==
    IF Started(W, i) THEN [W EXCEPT !.hist[i].fetched = TRUE] ELSE W

Flag(b) == IF b THEN "T" ELSE "F"

\* the element is inserted into the document
Attach(i) ==
    /\ i \in live
    /\ ~attached[i]
    /\ attached' = [attached EXCEPT ![i] = TRUE]
    /\ Becomes(NoteFetch([connectedCallback(World, i) EXCEPT
                            !.hist[i].wasAttached = TRUE], i))
    /\ UNCHANGED <<visible, now, nchanges, live>>

\* the element is removed from the document
Detach(i) ==
    /\ i \in live
    /\ attached[i]
    /\ attached' = [attached EXCEPT ![i] = FALSE]
    /\ Becomes(NoteFetch(disconnectedCallback(World, i), i))
    /\ UNCHANGED <<visible, now, nchanges, live>>

\* the page scrolls or the layout changes: the element moves into or out of
\* the observed area
Scroll(i) ==
    /\ i \in live
    /\ visible' = [visible EXCEPT ![i] = ~@]
    /\ settled' = NoFetch
    /\ events' = <<>>
    /\ UNCHANGED <<attrs, attached, el, dom, observers, timers, fetches,
                   now, threw, hist, nchanges, live, call, result, colors>>
    /\ UNCHANGED coreVars

\* A connected observer reports the intersection state of its target when
\* it differs from the state it reported last (the first report is
\* unconditional).
ObserverNotify(o) ==
    /\ o \in observers
    /\ o.last # Flag(Intersecting(o.inst))
    /\ LET i == o.inst
           b == Intersecting(i)
           entry == b /\ ~el[i].isInViewport
           exit == ~b /\ el[i].isInViewport
           W1 == [World EXCEPT
                    !.observers = (@ \ {o}) \cup {[o EXCEPT !.last = Flag(b)]}]
           W2 == observerCallback(W1, i, b)
           h == hist[i]
           h1 == IF entry
                 THEN [h EXCEPT !.entered = TRUE, !.cancelled = FALSE,
                                !.reentered = h.ended]
                 ELSE IF exit
                 THEN [h EXCEPT !.cancelled = ~h.fetched]
                 ELSE h
       IN  Becomes(NoteFetch([W2 EXCEPT !.hist[i] = h1], i))
    /\ UNCHANGED <<attached, visible, now, nchanges, live>>

\* an armed timer expires
TimerFire(t) ==
    /\ t \in timers
    /\ now >= t.due
    /\ Becomes(NoteFetch(timerCallback([World EXCEPT !.timers = @ \ {t}], t.inst),
                         t.inst))
    /\ UNCHANGED <<attached, visible, now, nchanges, live>>

\* a fetch succeeds
LoadSuccess(f) ==
    /\ f \in fetches
    /\ Becomes([onload(World, f) EXCEPT !.hist[f.inst].ended = TRUE])
    /\ UNCHANGED <<attached, visible, now, nchanges, live>>

\* a fetch fails
LoadFailure(f) ==
    /\ f \in fetches
    /\ Becomes([onerror(World, f) EXCEPT !.hist[f.inst].ended = TRUE])
    /\ UNCHANGED <<attached, visible, now, nchanges, live>>

\* the page sets or removes (v = NoAttr) a watched attribute
SetAttribute(i, name, v) ==
    /\ i \in live
    /\ nchanges < MaxAttrChanges
    /\ LET old == attrs[i][name]
           W1 == [World EXCEPT !.attrs[i][name] = v,
                               !.hist[i].hadSrc = @ \/ (name = "src" /\ v # NoAttr)]
           W2 == attributeChangedCallback(W1, i, name, old, v)
           W3 == IF old = v THEN W2
                 ELSE [W2 EXCEPT
                        !.fetches = {IF f.inst = i
                                     THEN [f EXCEPT !.superseded = TRUE]
                                     ELSE f : f \in W2.fetches},
                        !.hist[i].ended = FALSE,
                        !.hist[i].reentered = FALSE]
       IN  /\ Becomes(NoteFetch(W3, i))
           /\ nchanges' = IF old = v THEN nchanges ELSE nchanges + 1
    /\ UNCHANGED <<attached, visible, now, live>>

\* time passes while a fetch is pending (only load durations are measured)
Tick ==
    /\ now < StartTime + MaxTicks * TickMs
    /\ fetches # {}
    /\ now' = now + TickMs
    /\ settled' = NoFetch
    /\ events' = <<>>
    /\ UNCHANGED <<attrs, attached, visible, el, dom, observers, timers, fetches,
                   threw, hist, nchanges, live, call, result, colors>>
    /\ UNCHANGED coreVars

Next ==
    \/ \E i \in Inst : Attach(i)
    \/ \E i \in Inst : Detach(i)
    \/ \E i \in Inst : Scroll(i)
    \/ \E o \in observers : ObserverNotify(o)
    \/ \E t \in timers : TimerFire(t)
    \/ \E f \in fetches : LoadSuccess(f)
    \/ \E f \in fetches : LoadFailure(f)
    \/ \E i \in Inst : \E name \in observedAttributes :
          \E v \in AttrValues(name) : SetAttribute(i, name, v)
    \/ Tick

Spec == Init /\ [][Next]_vars

\* Several instances: the first with a source, a placeholder and debug mode
\* with no delay, the others with a source only.  The page does not change
\* their attributes and time stands still.
InitMulti ==
    /\ InitWith(Inst)
    /\ attrs[1] = Config("a.png", "000000", "", "0")
    /\ \A i \in Inst \ {1} : attrs[i] = Config("a.png", NoAttr, NoAttr, NoAttr)

NextMulti ==
    \/ \E i \in Inst : Attach(i)
    \/ \E i \in Inst : Detach(i)
    \/ \E i \in Inst : Scroll(i)
    \/ \E o \in observers : ObserverNotify(o)
    \/ \E t \in timers : TimerFire(t)
    \/ \E f \in fetches : LoadSuccess(f)
    \/ \E f \in fetches : LoadFailure(f)

SpecMulti == InitMulti /\ [][NextMulti]_vars

(***************************************************************************)
(* Calls of the decoder and the CSS converter.  The initial state holds    *)
(* one call, its function and arguments drawn from the sets below; the     *)
(* action of the function makes it.  No element exists.                    *)
(***************************************************************************)
Zeros(n) == [k \in 1..n |-> 0]

\* symbols of the detail component: the pairs give the quantised values 0
\* (all digits 0), 3429 (all digits 9), 6858 (all digits 18) and 6888
ACSymbols == {0, 26, 41, 52, 82}

\* strings with numX = 2, numY = 1
TwoComponentHashes ==
    {<<1, m, 0, 0, 0, 0, a, b>> : m \in {0, 82}, a \in ACSymbols, b \in ACSymbols}

Hashes ==
    { <<>>, Zeros(5), Zeros(6), Zeros(7),
      <<1>> \o Zeros(5),            \* first symbol asks for 8 symbols
      <<-1>> \o Zeros(5),           \* first symbol outside the alphabet
      <<0, -1, 0, 0, 0, 0>>,        \* a later symbol outside the alphabet
      Zeros(5) \o <<-1>>,
      <<81>> \o Zeros(23),          \* first symbol 81
      <<0, 0, 82, 82, 82, 82>> }
    \cup TwoComponentHashes

BatchHashes == {Zeros(6), Zeros(5), Zeros(5) \o <<-1>>, <<1, 0, 0, 0, 0, 0, 41, 41>>}

Batches == UNION {[1..n -> BatchHashes] : n \in 0..MaxBatch}

Dims == (-1)..MaxDim

Punches == {0, 5, PunchUnit, 12, MaxPunch}

\* characters of the strings given to decode83: the first two and the last
\* of the alphabet, one from its middle, and two outside it
Chars == {"0", "1", "z", "~", "!", " "}

Strings == UNION {[1..n -> Chars] : n \in 0..MaxStr}

CallOf(fn, hash, hashes, width, height, punch) ==
    [fn |-> fn, hash |-> hash, hashes |-> hashes, width |-> width,
     height |-> height, punch |-> punch, str |-> <<>>, made |-> FALSE]

Calls ==
    {CallOf(fn, h, <<>>, 0, 0, 0) :
        fn \in {"validateBlurhash", "isBlurhashValid"}, h \in Hashes}
    \cup {CallOf("decode", h, <<>>, w, ht, p) :
            h \in Hashes, w \in Dims, ht \in Dims, p \in Punches}
    \cup {CallOf(fn, h, <<>>, w, ht, PunchUnit) :
            fn \in {"blurhashToCss", "blurhashToCssObject"},
            h \in Hashes, w \in Dims, ht \in Dims}
    \cup {CallOf("blurhashesToCss", <<>>, hs, w, ht, PunchUnit) :
            hs \in Batches, w \in Dims, ht \in Dims}
    \cup {[CallOf("decode83", <<>>, <<>>, 0, 0, 0) EXCEPT !.str = str] :
            str \in Strings}

elementVars ==
    <<attrs, attached, visible, el, dom, observers, timers, fetches, settled,
      events, now, threw, hist, nchanges, live>>

InitCodec ==
    /\ live = {}
    /\ attrs = BareWorld.attrs
    /\ el = BareWorld.el
    /\ dom = BareWorld.dom
    /\ observers = {}
    /\ timers = {}
    /\ fetches = {}
    /\ settled = NoFetch
    /\ events = <<>>
    /\ threw = FALSE
    /\ hist = BareWorld.hist
    /\ attached = [i \in Inst |-> FALSE]
    /\ visible = [i \in Inst |-> FALSE]
    /\ now = StartTime
    /\ nchanges = 0
    /\ call \in Calls
    /\ result = NoResult
    /\ colors = [built |-> FALSE, terms |-> <<>>]
    /\ InitCores(DefaultOptions)

\* the call of fn is made and r is its outcome
Made(fn, r) ==
    /\ call.fn = fn
    /\ ~call.made
    /\ call' = [call EXCEPT !.made = TRUE]
    /\ result' = r
    /\ UNCHANGED elementVars
    /\ UNCHANGED coreVars

\* decode has filled colors when it reaches the allocation of the buffer:
\* the string passed validation and every symbol it read is in the alphabet
ColorsBuilt(blurhash) ==
    /\ ~validateBlurhash(blurhash).threw
    /\ \A k \in 1..Len(blurhash) : blurhash[k] >= 0

Decode83 ==
    /\ Made("decode83", decode83(Digits(call.str)))
    /\ UNCHANGED colors

Validate ==
    /\ Made("validateBlurhash", validateBlurhash(call.hash))
    /\ UNCHANGED colors

IsValid ==
    /\ Made("isBlurhashValid", Return(isBlurhashValid(call.hash)))
    /\ UNCHANGED colors

\* the outcome r of decode with the bytes of the buffer written out
WithBytes(r) == IF r.threw THEN r ELSE Return(Bytes(r.value))

\* the outcome r of blurhashToCssObject with the properties written out
WithCss(r) == IF r.threw THEN r ELSE Return(BlurhashCss(r.value))

\* the same for the JSON text of one struct and of a list of structs
WithCssText(r) ==
    IF r.threw THEN r ELSE Return(Stringify(BlurhashCss(r.value.json)))

WithCssTexts(r) ==
    IF r.threw THEN r
    ELSE Return(Stringify([k \in 1..Len(r.value.json) |-> BlurhashCss(r.value.json[k])]))

Decode ==
    /\ Made("decode",
            WithBytes(decode(call.hash, call.width, Num(call.height), call.punch)))
    /\ colors' = IF ColorsBuilt(call.hash)
                 THEN [built |-> TRUE, terms |-> decodeColors(call.hash, call.punch)]
                 ELSE colors

ToCss ==
    /\ Made("blurhashToCss",
            WithCssText(blurhashToCss(call.hash, call.width, Num(call.height), 24, 12)))
    /\ UNCHANGED colors

ToCssObject ==
    /\ Made("blurhashToCssObject",
            WithCss(blurhashToCssObject(
                        call.hash, [width |-> call.width, height |-> Num(call.height),
                                    blurRadius |-> 24, scaleFactor |-> 12,
                                    punch |-> call.punch])))
    /\ UNCHANGED colors

BatchToCss ==
    /\ Made("blurhashesToCss",
            WithCssTexts(blurhashesToCss(call.hashes, call.width, Num(call.height),
                                         24, 12)))
    /\ UNCHANGED colors

NextCodec ==
    \/ Decode83
    \/ Validate
    \/ IsValid
    \/ Decode
    \/ ToCss
    \/ ToCssObject
    \/ BatchToCss

SpecCodec == InitCodec /\ [][NextCodec]_vars

(***************************************************************************)
(* Rendering: one instance, created with any of the values below for       *)
(* blurhash, src-width and src-height, attached, detached and changed.     *)
(***************************************************************************)
RenderValues(name) ==
    CASE name = "blurhash"   -> {"000000", "00000", "00000!", "!00000", "100000"}
      [] name = "src-width"  -> {"400", "200", "0", "abc"}
      [] name = "src-height" -> {"300", "1", "0", "abc"}
      [] name = "src"        -> {NoAttr, "a.png"}

RenderConfigs ==
    {[NoAttrs EXCEPT !["src"] = s, !["blurhash"] = h, !["src-width"] = w,
                     !["src-height"] = ht] :
        s \in RenderValues("src"), h \in RenderValues("blurhash"),
        w \in RenderValues("src-width"), ht \in RenderValues("src-height")}

InitRender ==
    /\ InitWithConfigs({1}, RenderConfigs)
    /\ attrs[1] \in RenderConfigs

NextRender ==
    \/ \E i \in Inst : Attach(i)
    \/ \E i \in Inst : Detach(i)
    \/ \E i \in Inst : \E name \in {"blurhash", "src-width", "src-height"} :
          \E v \in RenderValues(name) : SetAttribute(i, name, v)

SpecRender == InitRender /\ [][NextRender]_vars

(***************************************************************************)
(* Calls on the BlurhashCore objects and on the markdown-it instance.  No  *)
(* element exists and no call of the decoder is made.                      *)
(***************************************************************************)
\* image sources: remote, relative and absolute, inside and outside the
\* project root /p, naming a file, a directory or nothing
ImageSrcs ==
    { <<"h", "t", "t", "p", ":", "/", "/", "h", "/", "a">>,
      <<"h", "t", "t", "p", "s", ":", "/", "/", "h", "/", "a">>,
      <<"a">>, <<"b">>, <<"d">>, <<".", "/", "s", "/", "a">>,
      <<".", ".", "/", "q", "/", "a">>, <<".", ".", "/", "p", "q", "/", "a">>,
      <<"/", "p", "/", "a">>, <<"/", "p", "/", "b">>, <<"/", "q", "/", "a">>,
      <<"/", "p", "q", "/", "a">>, <<"/", "p", "q", "/", "b">>,
      <<"/", "p", "/", ".", ".", "/", "q", "/", "a">> }

\* src attributes of image tokens (<<>>: none)
TokenSrcs ==
    { <<>>, <<"a">>, <<"b">>, <<"/", "i", "/", "a">>,
      <<"a", " ", "=", "1", "x", "2">>, <<"a", "=", "x">>, <<"a", "&", "b">>,
      <<"h", "t", "t", "p", ":", "/", "/", "h", "/", "a">>,
      <<"/", "p", "q", "/", "a">> }

Alts == {<<"x">>, <<"<", "x", ">">>}

RenderSizes == {NullSize, 100}

Tokens ==
    {NoToken}
    \cup {[exists |-> TRUE, src |-> s, alt |-> a, renderWidth |-> w, renderHeight |-> NullSize] :
            s \in TokenSrcs, a \in Alts, w \in RenderSizes}

StaticFileMappings ==
    { NoMapping,
      [configured |-> TRUE, staticDir |-> <<"/", "p", "/", "s">>, urlPrefixes |-> <<>>],
      [configured |-> TRUE, staticDir |-> <<"/", "p", "/", "s">>,
       urlPrefixes |-> << <<"/", "x", "/">>, <<"/", "i", "/">> >>] }

NativeAnswers == {"true", "false", "throw"}

\* what get_blurhash can answer: a result, an error result when the context
\* of the addon is not initialized
Blurhashes == IF addon.initialized THEN {SuccessResult, ErrorResult} ELSE {ErrorResult}

codecVars == <<call, result, colors>>

InitCore ==
    /\ live = {}
    /\ attrs = BareWorld.attrs
    /\ el = BareWorld.el
    /\ dom = BareWorld.dom
    /\ observers = {}
    /\ timers = {}
    /\ fetches = {}
    /\ settled = NoFetch
    /\ events = <<>>
    /\ threw = FALSE
    /\ hist = BareWorld.hist
    /\ attached = [i \in Inst |-> FALSE]
    /\ visible = [i \in Inst |-> FALSE]
    /\ now = StartTime
    /\ nchanges = 0
    /\ call = NoCall
    /\ result = NoResult
    /\ colors = [built |-> FALSE, terms |-> <<>>]
    /\ \E options \in [Cores -> CoreOptions] : InitCores(options)

\* the state a method reads
Kernel == [cores |-> cores, addon |-> addon, plugin |-> plugin, native |-> <<>>]

\* the call fn has run and r is what it left
Called(fn, c, src, token, r, seen) ==
    /\ cores' = r.K.cores
    /\ addon' = r.K.addon
    /\ plugin' = r.K.plugin
    /\ op' = [fn |-> fn, core |-> c, src |-> src, token |-> token, out |-> r.out,
              native |-> r.K.native, result |-> seen]
    /\ UNCHANGED elementVars
    /\ UNCHANGED codecVars

\* core c is an object the program holds: the core of the plugin exists only
\* once the plugin has created it
Held(c) == c # PluginCore \/ plugin.handle = c

Initialized(c, r) ==
    /\ Called("initialize", c, <<>>, NoToken, r, "none")
    /\ ready' = [ready EXCEPT ![c] = @ \/ ~r.out.threw]

Initialize(c, answer) ==
    /\ Held(c)
    /\ Initialized(c, initialize(Kernel, c, answer))

ProcessImage(c, src, answer) ==
    /\ Held(c)
    /\ Called("processImage", c, src, NoToken, processImage(Kernel, c, src, answer), "none")
    /\ UNCHANGED ready

CleanedUp(fn, c, r) ==
    /\ Called(fn, c, <<>>, NoToken, r, "none")
    /\ ready' = [ready EXCEPT ![c] = @ /\ ~(r.out.value = TRUE)]

Cleanup(c, answer) ==
    /\ Held(c)
    /\ CleanedUp("cleanup", c, cleanup(Kernel, c, answer))

PluginUsed(r) ==
    /\ Called("axBlurestPlugin", PluginCore, <<>>, NoToken, r, "none")
    /\ ready' = [ready EXCEPT ![PluginCore] = @ \/ ~r.out.threw]

\* md.use(axBlurestPlugin, options)
UsePlugin(staticFileMapping, answer) ==
    /\ plugin.core = 0
    /\ PluginUsed(axBlurestPlugin(Kernel, PluginCore, staticFileMapping, answer))

\* the result processImage gave the image rule
Seen(r) == IF r.out.threw THEN "threw" ELSE r.out.value.kind

ProcessedBy(K, token, answer) ==
    processImage(K, K.plugin.core,
                 resolveImagePath(parseImageSrc(token.src).cleanSrc,
                                  K.plugin.staticFileMapping),
                 answer)

\* md.render reaches an image token
RenderImage(token, answer) ==
    /\ plugin.installed
    /\ Called("image", plugin.core, token.src, token, imageRule(Kernel, token, answer),
              IF ~token.exists \/ token.src = <<>> THEN "none"
              ELSE Seen(ProcessedBy(Kernel, token, answer)))
    /\ UNCHANGED ready

CleanupPlugin(answer) ==
    /\ plugin.installed
    /\ IF plugin.handle # 0
       THEN CleanedUp("cleanupAxBlurest", plugin.handle, cleanupAxBlurest(Kernel, answer))
       ELSE /\ Called("cleanupAxBlurest", 0, <<>>, NoToken, cleanupAxBlurest(Kernel, answer), "none")
            /\ UNCHANGED ready

NextCore ==
    \/ \E c \in Cores : \E answer \in NativeAnswers : Initialize(c, answer)
    \/ \E c \in Cores : \E src \in ImageSrcs : \E answer \in Blurhashes :
          ProcessImage(c, src, answer)
    \/ \E c \in Cores : \E answer \in NativeAnswers : Cleanup(c, answer)
    \/ \E m \in StaticFileMappings : \E answer \in NativeAnswers : UsePlugin(m, answer)
    \/ \E token \in Tokens : \E answer \in Blurhashes : RenderImage(token, answer)
    \/ \E answer \in NativeAnswers : CleanupPlugin(answer)

SpecCore == InitCore /\ [][NextCore]_vars

(***************************************************************************)
(* Properties.                                                             *)
(***************************************************************************)
Pending(i) == {f \in fetches : f.inst = i}

EventsOf(i) == {k \in 1..Len(events) : events[k].inst = i}

\* the nodes the closures of the fetch that has just settled captured
SettledNodes == IF settled.stale THEN settled.nodes ELSE dom[settled.inst]

C2_NoEntryNoFetch ==
    \A i \in Inst :
        ~hist[i].entered =>
            /\ ~hist[i].fetched
            /\ Pending(i) = {}
            /\ EventsOf(i) = {}
            /\ settled.inst # i

\* every instance has been attached and detached without entering the viewport
C2_Witness ==
    \A i \in Inst : hist[i].wasAttached /\ ~attached[i] /\ ~hist[i].entered

\* C3: a change of a watched attribute leaves isInViewport, isImageLoaded and
\* isImageError false and loadStartTime cleared.
C3_AttributeChangeResetsState ==
    [][\A i \in Inst :
          attrs'[i] # attrs[i] =>
              /\ ~el'[i].isInViewport
              /\ ~el'[i].isImageLoaded
              /\ ~el'[i].isImageError
              /\ el'[i].loadStartTime = Null]_vars

\* C4: no timer that was armed before a change of a watched attribute is
\* still armed after it.
C4_AttributeChangeCancelsTimer ==
    [][\A i \in Inst :
          attrs'[i] # attrs[i] =>
              \A t \in timers : t.inst = i => t \notin timers']_vars

\* C5: the callback of a fetch initiated before an attribute-change reset
\* changes neither isImageLoaded nor isImageError and dispatches no event.
C5_StaleCallbackIsInert ==
    [][\A f \in fetches :
          (f.superseded /\ settled'.fid = f.fid) =>
              /\ el'[f.inst].isImageLoaded = el[f.inst].isImageLoaded
              /\ el'[f.inst].isImageError = el[f.inst].isImageError
              /\ events' = <<>>]_vars

\* C6: when a fetch has completed successfully, isImageLoaded is set, the
\* placeholder layer the fetch was started under is fading out, and exactly
\* one image-loaded event was dispatched, with the reference the fetch was
\* initiated with -- whether or not the cross-fade is suppressed.
C6_SuccessMarksLoadedFadesAndEmits ==
    settled.status = "loaded" =>
        /\ el[settled.inst].isImageLoaded
        /\ SettledNodes.loaded
        /\ SettledNodes.imgSrc = settled.src
        /\ SettledNodes.hasBlurhashLayer => SettledNodes.fadeOut
        /\ events = <<[inst |-> settled.inst, type |-> "image-loaded",
                       src |-> settled.src]>>

\* a successful load over a placeholder with the cross-fade suppressed
C6_Witness ==
    /\ settled.status = "loaded"
    /\ SettledNodes.hasBlurhashLayer
    /\ SettledNodes.noAnimation
    /\ SettledNodes.fadeOut

\* C7: when a fetch has failed, isImageError is set, the error layer of the
\* instance is visible, the placeholder layer the fetch was started under
\* is fading out, exactly one image-error event was dispatched, with the
\* fetched reference, and no exception reached the host.
C7_FailureMarksErrorRevealsAndEmits ==
    settled.status = "failed" =>
        /\ el[settled.inst].isImageError
        /\ dom[settled.inst].hasErrorLayer => dom[settled.inst].errorVisible
        /\ SettledNodes.hasBlurhashLayer => SettledNodes.fadeOut
        /\ events = <<[inst |-> settled.inst, type |-> "image-error",
                       src |-> settled.src]>>
        /\ ~threw

\* a failed load of an instance rendered with a placeholder
C7_Witness ==
    /\ settled.status = "failed"
    /\ ~settled.stale
    /\ dom[settled.inst].hasErrorLayer
    /\ dom[settled.inst].errorVisible

\* C8: once a fetch of an instance has ended, no step other than a change of
\* a watched attribute initiates a fetch for that instance.
C8_NoRetryAfterOutcome ==
    [][\A i \in Inst :
          (hist[i].ended /\ attrs'[i] = attrs[i]) =>
              /\ ~(hist'[i].fetched /\ ~hist[i].fetched)
              /\ Cardinality(Pending(i)') <= Cardinality(Pending(i))
              /\ el'[i].loadStartTime = el[i].loadStartTime]_vars

\* a viewport entry has been delivered after the fetch of the instance ended
C8_Witness ==
    \E i \in Inst :
        /\ hist[i].ended
        /\ hist[i].reentered
        /\ el[i].isInViewport
        /\ Pending(i) = {}

\* C9: after a successful load of an instance rendered with a placeholder,
\* the image layer carries the no-animation class when the fetch took less
\* than 200 ms, and does not carry it when the fetch took more than 200 ms.
C9_NoAnimationIffFastLoad ==
    (settled.status = "loaded" /\ ~settled.stale
        /\ dom[settled.inst].hasBlurhashLayer) =>
        /\ now - settled.startedAt < NoAnimationThreshold
              => dom[settled.inst].noAnimation
        /\ now - settled.startedAt > NoAnimationThreshold
              => ~dom[settled.inst].noAnimation

IsFallbackRender(root) ==
    /\ root.variant = "fallback"
    /\ ~root.hasBackdrop
    /\ ~root.hasBlurhashLayer
    /\ ~root.hasErrorLayer
    /\ root.css = "none"

IsPlaceholderRender(root) ==
    /\ root.variant = "placeholder"
    /\ root.hasBackdrop
    /\ root.hasBlurhashLayer
    /\ root.hasErrorLayer
    /\ root.css # "none"

Rendered(i) == dom[i].variant # "empty"

\* C10 as stated: the render is the fallback variant if and only if one of
\* src-width, src-height, blurhash is absent, and the placeholder variant
\* otherwise.
C10_FallbackIffAttributeAbsent ==
    \A i \in Inst :
        Rendered(i) =>
            IF \E n \in {"src-width", "src-height", "blurhash"} : attrs[i][n] = NoAttr
            THEN IsFallbackRender(dom[i])
            ELSE IsPlaceholderRender(dom[i])

\* C10: the render is the fallback variant if and only if one of src-width,
\* src-height, blurhash is absent or empty, and the placeholder variant
\* otherwise.
C10_FallbackIffAttributeAbsentOrEmpty ==
    \A i \in Inst :
        Rendered(i) =>
            IF \E n \in {"src-width", "src-height", "blurhash"} : ~Truthy(attrs[i][n])
            THEN IsFallbackRender(dom[i])
            ELSE IsPlaceholderRender(dom[i])

\* an instance with src-width and src-height but no blurhash, rendered
C10_Witness ==
    \E i \in Inst :
        /\ Rendered(i)
        /\ attrs[i]["src-width"] = "400"
        /\ attrs[i]["src-height"] = "300"
        /\ attrs[i]["blurhash"] = NoAttr
        /\ IsFallbackRender(dom[i])

(***************************************************************************)
(* Rendering with any blurhash, src-width and src-height (SpecRender).     *)
(***************************************************************************)
\* the generation of the CSS for the attributes a fails: the hash does not
\* pass validation, or the converter throws
GenerationFails(a) ==
    \/ ~isValidBlurhash(HashSymbols(a["blurhash"]))
    \/ cssPropertiesFor(a["blurhash"],
                        aspectRatioOf(a["src-width"], a["src-height"])).threw

\* C11: whatever the values of blurhash, src-width and src-height, no
\* handler that renders raises an exception to the host.
C11_RenderNeverThrows == ~threw

\* an attached instance whose hash passes validation, with a source height
\* of 0: the converter threw, and render completed with the substitute
C11_Witness ==
    \E i \in live :
        /\ attached[i]
        /\ attrs[i]["blurhash"] = "000000"
        /\ attrs[i]["src-height"] = "0"
        /\ attrs[i]["src-width"] = "400"
        /\ cssPropertiesFor("000000", aspectRatioOf("400", "0")).threw
        /\ IsPlaceholderRender(dom[i])
        /\ ~threw

\* C12: whenever the generation of the CSS fails, because the hash is
\* invalid or because the generation throws, the backdrop and placeholder
\* layers carry the animated gradient.
C12_FailureGivesGradient ==
    \A i \in live :
        (Rendered(i) /\ hasCompleteData(attrs[i]) /\ GenerationFails(attrs[i]))
            => dom[i].css = "gradient"

\* C13: an instance whose src attribute was never given a value has no
\* image layer, has initiated no fetch, has none pending, and the step that
\* led here dispatched no event of it.
C13_NoSrcNoImageNoFetch ==
    \A i \in live :
        ~hist[i].hadSrc =>
            /\ dom[i].dataSrc = NoAttr
            /\ ~hist[i].fetched
            /\ Pending(i) = {}
            /\ EventsOf(i) = {}

\* an instance without src that is attached, has been told that it entered
\* the viewport, and had another attribute changed
C13_Witness ==
    \E i \in live :
        /\ ~hist[i].hadSrc
        /\ attached[i]
        /\ hist[i].entered
        /\ el[i].isInViewport
        /\ nchanges > 0
        /\ Rendered(i)

(***************************************************************************)
(* The decoder and the CSS converter (SpecCodec).                          *)
(***************************************************************************)
\* the call of one of the functions fns has been made
CallMade(fns) == call.made /\ call.fn \in fns

FirstInAlphabet(blurhash) ==
    Len(blurhash) >= 1 /\ blurhash[1] >= 0 /\ blurhash[1] <= 82

\* 4 + 2 * numX * numY for the first symbol of the string
ExpectedLength(blurhash) == 4 + 2 * numXOf(blurhash[1]) * numYOf(blurhash[1])

\* the call failed with a ValidationError that names the lengths
NamesLengths(actual, expected) ==
    /\ result.threw
    /\ result.error.name = "ValidationError"
    /\ result.error.actual = actual
    /\ result.error.expected = expected

\* C14 as stated: a string whose length differs from 4 + 2 * numX * numY is
\* not accepted, and fails with a message that names its length and the
\* expected one.
C14_MismatchNamesBothLengths ==
    (CallMade({"decode", "validateBlurhash"}) /\ FirstInAlphabet(call.hash))
        => \/ Len(call.hash) = ExpectedLength(call.hash)
           \/ NamesLengths(Len(call.hash), ExpectedLength(call.hash))

\* C14: a string whose length differs from 4 + 2 * numX * numY is not
\* accepted: with at least 6 symbols it fails with a message that names its
\* length and the expected one, with fewer it fails with the message that at
\* least 6 characters are needed.
C14_MismatchFailsValidation ==
    (CallMade({"decode", "validateBlurhash"}) /\ FirstInAlphabet(call.hash))
        => \/ Len(call.hash) = ExpectedLength(call.hash)
           \/ /\ Len(call.hash) >= 6
              /\ NamesLengths(Len(call.hash), ExpectedLength(call.hash))
           \/ /\ Len(call.hash) < 6
              /\ result.threw
              /\ result.error.name = "ValidationError"
              /\ result.error.text = "The blurhash string must be at least 6 characters"

\* decode of a string of 6 symbols whose first symbol asks for 8 has failed,
\* naming 6 and 8
C14_Witness ==
    /\ CallMade({"decode"})
    /\ Len(call.hash) = 6
    /\ FirstInAlphabet(call.hash)
    /\ ExpectedLength(call.hash) = 8
    /\ NamesLengths(6, 8)

\* C15: a string that passes validation has 1 <= numX <= 9 and
\* 1 <= numY <= 9.
C15_ComponentCountsInRange ==
    (CallMade({"validateBlurhash"}) /\ ~result.threw)
        => /\ numXOf(call.hash[1]) \in 1..9
           /\ numYOf(call.hash[1]) \in 1..9

\* C16: for a valid hash, width > 0 and height > 0, decode returns
\* width * height * 4 bytes, and the byte at 4 * x + 3 + y * width * 4 is 255
\* for every pixel (x, y).
C16_BufferSizeAndAlpha ==
    (/\ CallMade({"decode"})
     /\ ColorsBuilt(call.hash)
     /\ call.width > 0
     /\ call.height > 0)
        => /\ ~result.threw
           /\ DOMAIN result.value = 0..(call.width * call.height * 4 - 1)
           /\ \A x \in 0..(call.width - 1) : \A y \in 0..(call.height - 1) :
                 result.value[4 * x + 3 + y * call.width * 4] = 255

\* decode of a valid hash with width 2 and height 2 has returned
C16_Witness ==
    /\ CallMade({"decode"})
    /\ ColorsBuilt(call.hash)
    /\ call.width = 2
    /\ call.height = 2
    /\ ~result.threw
    /\ Cardinality(DOMAIN result.value) = 16

\* the detail components of the colors array
Details == DOMAIN colors.terms \ {0}

\* C17: with punch > 1, each channel of each detail term decode computed is
\* at least as large in magnitude as the one it computes with punch = 1.
C17_PunchDoesNotShrinkDetail ==
    (CallMade({"decode"}) /\ colors.built /\ call.punch > PunchUnit)
        => \A i \in Details : \A c \in 1..3 :
              MagnitudeAtLeast(colors.terms[i][c],
                               decodeColors(call.hash, PunchUnit)[i][c])

\* decode with punch > 1 of a hash with a detail term that is larger in
\* magnitude than with punch = 1
C17_Witness ==
    /\ CallMade({"decode"})
    /\ colors.built
    /\ call.punch > PunchUnit
    /\ \E i \in Details : \E c \in 1..3 :
          ~MagnitudeAtLeast(decodeColors(call.hash, PunchUnit)[i][c],
                            colors.terms[i][c])

CssFunctions == {"blurhashToCss", "blurhashToCssObject", "blurhashesToCss"}

\* the hashes given to the call
HashesOf(c) == IF c.fn = "blurhashesToCss" THEN c.hashes ELSE <<c.hash>>

\* the structs the call returned
CssResults ==
    CASE call.fn = "blurhashToCssObject" -> <<result.value>>
      [] call.fn = "blurhashToCss" -> <<result.value.json>>
      [] call.fn = "blurhashesToCss" -> result.value.json

\* C18: for valid hashes and a height H >= 1 (and a width >= 1), the
\* background-image of each struct generated has H row gradients and its
\* background-position H entries, the first of them "0 0".
C18_OneGradientAndPositionPerRow ==
    (/\ CallMade(CssFunctions)
     /\ \A k \in 1..Len(HashesOf(call)) : ColorsBuilt(HashesOf(call)[k])
     /\ call.width >= 1
     /\ call.height >= 1)
        => /\ ~result.threw
           /\ Len(CssResults) = Len(HashesOf(call))
           /\ \A k \in 1..Len(CssResults) :
                 /\ Len(CssResults[k].backgroundImage) = call.height
                 /\ Len(CssResults[k].backgroundPosition) = call.height
                 /\ CssResults[k].backgroundPosition[1] = <<0, 0, "">>

\* a struct generated for a valid hash with the largest height
C18_Witness ==
    /\ CallMade({"blurhashToCssObject"})
    /\ ColorsBuilt(call.hash)
    /\ call.width >= 1
    /\ call.height = MaxDim
    /\ ~result.threw
    /\ Len(result.value.backgroundPosition) = MaxDim

\* C19 as stated: a call of one of the three functions with width <= 0 or
\* height <= 0 fails.
C19_NonPositiveSizeFails ==
    (CallMade(CssFunctions) /\ (call.width <= 0 \/ call.height <= 0))
        => result.threw

\* C19: a call of one of the three functions with width <= 0 or
\* height <= 0, the batch function with at least one hash, fails.
C19_NonPositiveSizeFailsForAHash ==
    (/\ CallMade(CssFunctions)
     /\ call.width <= 0 \/ call.height <= 0
     /\ HashesOf(call) # <<>>)
        => result.threw

\* the batch function called with valid hashes and width 0 has failed
C19_Witness ==
    /\ CallMade({"blurhashesToCss"})
    /\ call.hashes # <<>>
    /\ \A k \in 1..Len(call.hashes) : ColorsBuilt(call.hashes[k])
    /\ call.width = 0
    /\ call.height > 0
    /\ result.threw

\* the hash converts with the size and the options of the batch call
Converts(hash) ==
    ~blurhashToCssStruct(hash, Options(call.width, Num(call.height), 24, 12)).threw

\* the members of the batch that do not convert
Failing == {k \in 1..Len(call.hashes) : ~Converts(call.hashes[k])}

\* C20: the batch function returns one struct per hash, in the order of the
\* hashes, if every hash converts; otherwise it returns nothing and its
\* error names the smallest index whose hash fails.
C20_BatchIsAtomic ==
    CallMade({"blurhashesToCss"})
        => IF Failing = {}
           THEN /\ ~result.threw
                /\ Len(result.value.json) = Len(call.hashes)
                /\ \A k \in 1..Len(call.hashes) :
                      result.value.json[k] =
                          BlurhashCss(blurhashToCssStruct(
                              call.hashes[k],
                              Options(call.width, Num(call.height), 24, 12)).value)
           ELSE /\ result.threw
                /\ result.error.index = Min(Failing) - 1

\* a batch of two whose first hash converts and whose second does not has
\* failed, naming index 1
C20_Witness ==
    /\ CallMade({"blurhashesToCss"})
    /\ Len(call.hashes) = 2
    /\ Failing = {2}
    /\ result.threw
    /\ result.error.index = 1

(***************************************************************************)
(* C21.  decode83 of a string c1..cn returns the number obtained by        *)
(* folding value = value * 83 + (index of ci in the alphabet) from 0, the  *)
(* alphabet has 83 symbols, no two of them equal, and decode83 fails with  *)
(* the invalid-character ValidationError exactly when some ci is not in    *)
(* the alphabet.                                                           *)
(***************************************************************************)
Alphabet == {BASE83_CHARS[k] : k \in 1..Len(BASE83_CHARS)}

\* the index (from 0) of a symbol of the alphabet
alphabetIndex(c) == (CHOOSE k \in 1..Len(BASE83_CHARS) : BASE83_CHARS[k] = c) - 1

RECURSIVE Folded(_, _)
\* the fold over the first n characters of str, from 0
Folded(str, n) ==
    IF n = 0 THEN 0 ELSE Folded(str, n - 1) * 83 + alphabetIndex(str[n])

InvalidSymbol(r) ==
    /\ r.threw
    /\ r.error.name = "ValidationError"
    /\ r.error.text = "Invalid base83 character"

C21_Decode83FoldsOverAlphabet ==
    /\ Len(BASE83_CHARS) = 83
    /\ Cardinality(Alphabet) = 83
    /\ (call.fn = "decode83" /\ call.made) =>
          IF \E k \in 1..Len(call.str) : call.str[k] \notin Alphabet
          THEN InvalidSymbol(result)
          ELSE ~result.threw /\ result.value = Folded(call.str, Len(call.str))

\* a three-symbol string has been decoded
C21_Witness ==
    /\ call.fn = "decode83"
    /\ call.made
    /\ call.str = <<"1", "z", "~">>
    /\ result = Return(83 * 83 + 61 * 83 + 82)

(***************************************************************************)
(* C22.  The image rule of the markdown plugin emits an <ax-blurest>       *)
(* element, carrying src-width, src-height, alt, src and blurhash, only    *)
(* when the hashing backend returned a success result; when the backend    *)
(* reported a failure or the reference was skipped (null result) it emits  *)
(* a plain <img> with the same src and alt.                                *)
(***************************************************************************)
HasAttr(element, name) == \E k \in 1..Len(element.attrs) : element.attrs[k].name = name

AttrValue(element, name) ==
    element.attrs[Min({k \in 1..Len(element.attrs) : element.attrs[k].name = name})].value

\* the image rule has run for a token with a src attribute and returned
ImageRendered ==
    /\ op.fn = "image"
    /\ op.token.exists
    /\ op.token.src # <<>>
    /\ ~op.out.threw

\* the src and alt of the reference, as they are written into markup
CarriesSrcAndAlt(element) ==
    /\ HasAttr(element, "src")
    /\ AttrValue(element, "src") = escapeHtml(parseImageSrc(op.token.src).cleanSrc)
    /\ HasAttr(element, "alt")
    /\ AttrValue(element, "alt") = escapeHtml(op.token.alt)

C22_ComponentOnlyOnSuccess ==
    ImageRendered =>
        /\ op.out.value.tag \in {"ax-blurest", "img"}
        /\ op.out.value.tag = "ax-blurest" =>
              /\ op.result = "success"
              /\ op.native = <<"get_blurhash">>
              /\ CarriesSrcAndAlt(op.out.value)
              /\ HasAttr(op.out.value, "src-width")
              /\ AttrValue(op.out.value, "src-width") = SuccessResult.width
              /\ HasAttr(op.out.value, "src-height")
              /\ AttrValue(op.out.value, "src-height") = SuccessResult.height
              /\ HasAttr(op.out.value, "blurhash")
              /\ AttrValue(op.out.value, "blurhash") = SuccessResult.blurhash
        /\ op.result \in {"null", "error"} =>
              /\ op.out.value.tag = "img"
              /\ CarriesSrcAndAlt(op.out.value)
              /\ ~HasAttr(op.out.value, "blurhash")

\* the backend returned a success result for a reference whose alt text
\* needs escaping, and the component was emitted
C22_Witness ==
    /\ ImageRendered
    /\ op.result = "success"
    /\ op.token.alt = <<"<", "x", ">">>
    /\ op.out.value.tag = "ax-blurest"

(***************************************************************************)
(* C23.  In every sequence of initialize, processImage and cleanup calls   *)
(* on a BlurhashCore, processImage raises an error and does not call the   *)
(* native addon unless initialize() has returned on that object and no     *)
(* cleanup() of it has returned true since.                                *)
(***************************************************************************)
\* processImage has been called on core op.core, by the program or by the
\* image rule of the plugin
ProcessImageCalled ==
    \/ op.fn = "processImage"
    \/ op.fn = "image" /\ op.token.exists /\ op.token.src # <<>>

C23_ProcessImageNeedsInitialize ==
    (ProcessImageCalled /\ ~ready[op.core]) =>
        /\ op.out.threw
        /\ op.out.error.text = "Core not initialized. Call initialize() first."
        /\ op.native = <<>>

\* processImage was refused on a core that was never initialized while the
\* other core has initialized the addon
C23_Witness ==
    /\ op.fn = "processImage"
    /\ ~ready[op.core]
    /\ addon.initialized
    /\ op.out.threw
    /\ op.native = <<>>

(***************************************************************************)
(* C24.  processImage returns null without calling the native addon for    *)
(* every remote URL, for every path that resolves outside the project      *)
(* root and for every path that does not name an existing file.            *)
(***************************************************************************)
\* the absolute path src stands for
AbsoluteOf(src, root) == IF isAbsolute(src) THEN src ELSE root \o <<"/">> \o src

\* the path lies under root: its segments start with those of root
Under(p, root) ==
    /\ Len(SegmentsOf(root)) <= Len(SegmentsOf(p))
    /\ SubSeq(SegmentsOf(p), 1, Len(SegmentsOf(root))) = SegmentsOf(root)

Invalid(src, root) ==
    \/ isNetworkUrl(src)
    \/ ~Under(AbsoluteOf(src, root), root)
    \/ ~isFile(AbsoluteOf(src, root))

C24_InvalidSourcesAreSkipped ==
    (/\ op.fn = "processImage"
     /\ cores[op.core].initialized
     /\ Invalid(op.src, cores[op.core].options.projectRoot)) =>
        /\ op.out = Return(NullResult)
        /\ op.native = <<>>

(***************************************************************************)
(* C25.  In every reachable state an instance has at most one connected    *)
(* visibility observer and at most one armed pending-load timer.           *)
(***************************************************************************)
ObserversOf(i) == {o \in observers : o.inst = i}

TimersOf(i) == {t \in timers : t.inst = i}

C25_OneObserverOneTimer ==
    \A i \in Inst :
        /\ Cardinality(ObserversOf(i)) <= 1
        /\ Cardinality(TimersOf(i)) <= 1

(***************************************************************************)
(* C26.  While isImageLoaded or isImageError is true, a viewport-entry     *)
(* notification and the expiry of a pending-load timer initiate no fetch   *)
(* and arm no timer.                                                       *)
(***************************************************************************)
\* the step delivers an observer notification or a timer expiry to i
NotifiesOrExpires(i) ==
    \/ \E o \in observers : o.inst = i /\ ObserverNotify(o)
    \/ \E t \in timers : t.inst = i /\ TimerFire(t)

C26_FlagsMakeTriggersInert ==
    [][\A i \in Inst :
          ((el[i].isImageLoaded \/ el[i].isImageError) /\ NotifiesOrExpires(i)) =>
              /\ Pending(i)' \subseteq Pending(i)
              /\ TimersOf(i)' \subseteq TimersOf(i)
              /\ hist'[i].fetched = hist[i].fetched]_vars

\* a viewport entry has been delivered to an instance in debug mode whose
\* fetch had failed: nothing is pending and no timer is armed
C26_Witness ==
    \E i \in Inst :
        /\ el[i].isImageError
        /\ attrs[i]["debug"] # NoAttr
        /\ hist[i].reentered
        /\ el[i].isInViewport
        /\ Pending(i) = {}
        /\ TimersOf(i) = {}

(***************************************************************************)
(* C27.  An instance has an armed pending-load timer only while it is in   *)
(* debug mode: no state with an armed timer and no debug attribute is      *)
(* reachable.                                                              *)
(***************************************************************************)
C27_TimerOnlyInDebugMode ==
    \A i \in Inst : TimersOf(i) # {} => attrs[i]["debug"] # NoAttr

(***************************************************************************)
(* C28.  A viewport-exit notification delivered after the fetch has been   *)
(* initiated (in flight, loaded or errored) changes nothing but            *)
(* isInViewport: the fetch is not aborted, isImageLoaded and isImageError  *)
(* are unchanged, and a fetch in flight still delivers its outcome event.  *)
(***************************************************************************)
\* the step delivers a viewport exit to instance i
DeliversExit(i) ==
    /\ el[i].isInViewport
    /\ ~Intersecting(i)
    /\ \E o \in observers : o.inst = i /\ ObserverNotify(o)

\* the fetch of instance i is in flight, or has succeeded or failed
FetchInitiated(i) ==
    Pending(i) # {} \/ el[i].isImageLoaded \/ el[i].isImageError

\* the fetch and what it will do when it ends are as before the step
FetchUntouched(i) ==
    /\ Pending(i)' = Pending(i)
    /\ el'[i].isImageLoaded = el[i].isImageLoaded
    /\ el'[i].isImageError = el[i].isImageError
    /\ el'[i].loadStartTime = el[i].loadStartTime
    /\ events' = <<>>
    /\ ~threw'

CallbackOf(i) ==
    \/ attached'[i] # attached[i]
    \/ attrs'[i] # attrs[i]
    \/ \E o \in ObserversOf(i) : o \notin observers'
    \/ \E t \in TimersOf(i) : t \notin timers'
    \/ \E f \in Pending(i) : f \notin fetches'

\* flags and handles of instance j
Handles(j) ==
    [isInViewport |-> el[j].isInViewport,
     isImageLoaded |-> el[j].isImageLoaded,
     isImageError |-> el[j].isImageError,
     loadingTimer |-> el[j].loadingTimer,
     observer |-> el[j].observer]

quantR(value) == value \div (19 * 19)

quantG(value) == (value \div 19) % 19

quantB(value) == value % 19

\* the values decode hands to decodeAC: one per component after the first
ACValues(blurhash) ==
    {decode83(Chunk(blurhash, i)).value :
        i \in 1..(numXOf(blurhash[1]) * numYOf(blurhash[1]) - 1)}

C30_ACChunksInRange ==
    (CallMade({"decode"}) /\ ColorsBuilt(call.hash)) =>
        \A value \in ACValues(call.hash) :
            /\ value \in 0..(19 * 19 * 19 - 1)
            /\ quantR(value) \in 0..18
            /\ quantG(value) \in 0..18
            /\ quantB(value) \in 0..18

(***************************************************************************)
(* C31.  For every string that passes validation, the 4-character DC chunk *)
(* at offset 2 decodes to a 24-bit integer whose R, G and B parts are each *)
(* in [0, 255].                                                            *)
(***************************************************************************)
\* the parts decodeDC takes from the value of the chunk
intR(value) == value \div 65536

intG(value) == (value \div 256) % 256

intB(value) == value % 256

\* the value decode hands to decodeDC
DCValue(blurhash) == decode83(Chunk(blurhash, 0)).value

C31_DCChunkIs24Bit ==
    (CallMade({"decode"}) /\ ColorsBuilt(call.hash)) =>
        /\ DCValue(call.hash) \in 0..(256 * 256 * 256 - 1)
        /\ intR(DCValue(call.hash)) \in 0..255
        /\ intG(DCValue(call.hash)) \in 0..255
        /\ intB(DCValue(call.hash)) \in 0..255

(***************************************************************************)
(* C32.  Every decoded AC channel term equals                              *)
(* sign((q-9)/9) * |(q-9)/9|^2 * maximumValue * punch for the punch value  *)
(* the caller passed to decode, for every punch >= 0; in particular        *)
(* punch = 0 yields AC terms that are all zero.                            *)
(***************************************************************************)
\* the digit of channel c (1: R, 2: G, 3: B) in the value of an AC chunk
Quant(value, c) ==
    CASE c = 1 -> quantR(value) [] c = 2 -> quantG(value) [] OTHER -> quantB(value)

\* (quantisedMaximumValue + 1) / 166
MaximumValue(blurhash) == Frac(decode83(<<blurhash[2]>>).value + 1, 166)

\* the term the formula gives for digit q, with punch in tenths
ACTerm(q, maximumValue, punch) ==
    Mul(Mul(signPow(Frac(q - 9, 9), 2), maximumValue), Frac(punch, PunchUnit))

\* as stated: the punch the caller passed, 0 included
C32_ACTermsScaleWithPunch ==
    (CallMade({"decode"}) /\ colors.built /\ call.punch >= 0)
        => \A i \in Details : \A c \in 1..3 :
              /\ colors.terms[i][c] =
                    ACTerm(Quant(decode83(Chunk(call.hash, i)).value, c),
                           MaximumValue(call.hash), call.punch)
              /\ call.punch = 0 => colors.terms[i][c].n = 0

\* C32 as it holds: the terms follow the formula for the punch the caller
\* passed when it is positive, and for punch = 1 when the caller passed 0
C32_ACTermsScaleWithPositivePunch ==
    (CallMade({"decode"}) /\ colors.built /\ call.punch >= 0)
        => \A i \in Details : \A c \in 1..3 :
              colors.terms[i][c] =
                 ACTerm(Quant(decode83(Chunk(call.hash, i)).value, c),
                        MaximumValue(call.hash),
                        IF call.punch = 0 THEN PunchUnit ELSE call.punch)

\* decode with punch = 0.5 of a hash with a detail term that is not zero:
\* the term is half the one the formula gives for punch = 1
C32_Witness ==
    /\ CallMade({"decode"})
    /\ colors.built
    /\ call.punch = 5
    /\ \E i \in Details : \E c \in 1..3 :
          /\ colors.terms[i][c].n # 0
          /\ colors.terms[i][c] =
                Mul(ACTerm(Quant(decode83(Chunk(call.hash, i)).value, c),
                           MaximumValue(call.hash), PunchUnit),
                    Frac(1, 2))

(***************************************************************************)
(* C33.  Every row gradient has exactly width colour stops in pixel order; *)
(* stop x carries the start percentage round(100*x/width) unless x = 0 and *)
(* the end percentage round(100*(x+1)/width) unless x = width-1, so the    *)
(* end of stop x equals the start of stop x+1 and the percentages never    *)
(* decrease along the row and stay within [0, 100].                        *)
(***************************************************************************)
\* p is n / d rounded to the nearest whole number, halves upwards
IsRounded(p, n, d) == 2 * p * d <= 2 * n + d /\ 2 * n + d < 2 * (p + 1) * d

\* the percentages of a row in the order they are written
RowPercentages(row) ==
    [k \in 1..(2 * Len(row)) |->
        IF k % 2 = 1 THEN row[(k + 1) \div 2].startPercent
        ELSE row[k \div 2].endPercent]

\* the colour decode computed for channel c of pixel (x, y)
PixelColour(x, y, c) == [fn |-> "linearTosRGB", x |-> x, y |-> y, channel |-> c]

\* the gradient of row y of a call with the given width is as the claim says
RowAsStated(row, y, width) ==
    /\ Len(row) = width
    /\ \A x \in 0..(width - 1) :
          /\ row[x + 1].rgb = [r |-> PixelColour(x, y, 0), g |-> PixelColour(x, y, 1),
                               b |-> PixelColour(x, y, 2)]
          /\ IF x = 0 THEN row[x + 1].startPercent = <<>>
             ELSE /\ Len(row[x + 1].startPercent) = 1
                  /\ IsRounded(row[x + 1].startPercent[1], 100 * x, width)
          /\ IF x = width - 1 THEN row[x + 1].endPercent = <<>>
             ELSE /\ Len(row[x + 1].endPercent) = 1
                  /\ IsRounded(row[x + 1].endPercent[1], 100 * (x + 1), width)
                  /\ row[x + 1].endPercent = row[x + 2].startPercent
    /\ \A j, k \in 1..(2 * width) :
          (j < k /\ RowPercentages(row)[j] # <<>> /\ RowPercentages(row)[k] # <<>>)
              => /\ RowPercentages(row)[j][1] <= RowPercentages(row)[k][1]
                 /\ RowPercentages(row)[j][1] \in 0..100
                 /\ RowPercentages(row)[k][1] \in 0..100

C33_StopsFollowThePixels ==
    (CallMade(CssFunctions) /\ ~result.threw)
        => \A k \in 1..Len(CssResults) :
              \A y \in 1..Len(CssResults[k].backgroundImage) :
                  RowAsStated(CssResults[k].backgroundImage[y], y - 1, call.width)

\* a struct generated with the largest width: the stop in the middle of a
\* row carries both percentages
C33_Witness ==
    /\ CallMade({"blurhashToCssObject"})
    /\ ~result.threw
    /\ call.width = 3
    /\ call.height >= 2
    /\ result.value.backgroundImage[2][2].startPercent = <<33>>
    /\ result.value.backgroundImage[2][2].endPercent = <<67>>

(***************************************************************************)
(* C34.  For every pair of positive intrinsic dimensions (src-width,       *)
(* src-height), the element requests a target raster that is 32 on the     *)
(* long axis with the other axis round-derived from the aspect ratio, so   *)
(* that both requested dimensions are at least 1 and at most 32.           *)
(***************************************************************************)
\* the attribute value is a positive number
IsPositive(v) == ParseNum(v).k = "num" /\ ParseNum(v).v > 0

\* the width and height generateBlurhashCSS gives blurhashToCssObject
RequestedWidth(a) == baseSize

RequestedHeight(a) ==
    RoundedQuotient(baseSize, aspectRatioOf(a["src-width"], a["src-height"]))

\* render() of instance i has asked the converter for a raster
RequestsRaster(i) ==
    /\ Rendered(i)
    /\ hasCompleteData(attrs[i])
    /\ isValidBlurhash(HashSymbols(attrs[i]["blurhash"]))

C34_RasterWithin32 ==
    \A i \in live :
        (/\ RequestsRaster(i)
         /\ IsPositive(attrs[i]["src-width"])
         /\ IsPositive(attrs[i]["src-height"]))
            => /\ RequestedHeight(attrs[i]).k = "num"
               /\ RequestedWidth(attrs[i]) \in 1..32
               /\ RequestedHeight(attrs[i]).v \in 1..32
               /\ 32 \in {RequestedWidth(attrs[i]), RequestedHeight(attrs[i]).v}
               /\ ParseNum(attrs[i]["src-height"]).v > ParseNum(attrs[i]["src-width"]).v
                     => RequestedHeight(attrs[i]).v = 32

(***************************************************************************)
(* C35.  Between two consecutive resets of an instance, at most one fetch  *)
(* is initiated and at most one outcome event (image-loaded or             *)
(* image-error) is emitted, whatever sequence of viewport exits and        *)
(* re-entries occurs while a fetch is in flight.                           *)
(***************************************************************************)
\* the fetches of instance i in flight that were initiated since the last
\* change of a watched attribute
PendingSinceReset(i) == {f \in Pending(i) : ~f.superseded}

C35_OneFetchBetweenResets ==
    \A i \in Inst :
        /\ Cardinality(PendingSinceReset(i)) <= 1
        /\ (settled.inst = i /\ ~settled.superseded /\ EventsOf(i) # {})
              => PendingSinceReset(i) = {}

(***************************************************************************)
(* C36.  isImageLoaded and isImageError are never both true in any         *)
(* reachable state of an instance.                                         *)
(***************************************************************************)
C36_LoadedAndErrorExclusive ==
    \A i \in Inst : ~(el[i].isImageLoaded /\ el[i].isImageError)

(***************************************************************************)
(* C37.  Under fair delivery of observer, timer and load callbacks, an     *)
(* attached instance that has a src, is inside the viewport and stays      *)
(* inside it eventually initiates a fetch unless it is already loaded or   *)
(* errored; this holds also after a watched attribute changes and after a  *)
(* detach followed by a re-attach while the element is in view.            *)
(***************************************************************************)
\* The host delivers every callback that stays deliverable: the report of a
\* connected observer, the expiry of an armed timer whose time has come, the
\* outcome of a fetch in flight.
Fairness ==
    /\ WF_vars(\E o \in observers : ObserverNotify(o))
    /\ WF_vars(\E t \in timers : TimerFire(t))
    /\ WF_vars(\E f \in fetches : LoadSuccess(f) \/ LoadFailure(f))

SpecLive == Init /\ [][Next]_vars /\ Fairness

\* instance i is attached, has a src and is inside the viewport
InView(i) ==
    /\ i \in live
    /\ attached[i]
    /\ visible[i]
    /\ Truthy(attrs[i]["src"])

\* a fetch of the configuration of instance i has been initiated, or the
\* instance is loaded or errored
FetchStarted(i) ==
    \/ PendingSinceReset(i) # {}
    \/ el[i].isImageLoaded
    \/ el[i].isImageError

\* a timer of instance i is armed whose time the clock has not reached
TimerWaits(i) == \E t \in TimersOf(i) : t.due > now

C37_InViewEventuallyFetches ==
    \A i \in Inst :
        (InView(i) /\ ~FetchStarted(i)) ~> (~InView(i) \/ FetchStarted(i) \/ TimerWaits(i))

(***************************************************************************)
(* C38.  Every hash for which the validation utility reports valid is      *)
(* decoded by decode without error for every width > 0 and height > 0 (and *)
(* therefore converts to CSS without error).                               *)
(***************************************************************************)
C38_ValidHashesDecode ==
    (/\ CallMade({"decode", "blurhashToCss", "blurhashToCssObject"})
     /\ isBlurhashValid(call.hash).result
     /\ call.width > 0
     /\ call.height > 0)
        => ~result.threw

(***************************************************************************)
(* C39.  After an instance is detached, it emits no image-loaded or        *)
(* image-error event and none of its state flags changes until it is       *)
(* attached again, even when a fetch was in flight at the moment of        *)
(* detach.  Steps in which the page changes an attribute of the detached   *)
(* instance are left out: the formula speaks of the callbacks of the       *)
(* instance's own observer, timer and fetches only.                        *)
(***************************************************************************)
StateFlags(i) ==
    <<el[i].isInViewport, el[i].isImageLoaded, el[i].isImageError>>

StaysDetached(i) ==
    ~attached[i] /\ ~attached'[i] /\ attrs'[i] = attrs[i]

C39_DetachedInstanceIsSilent ==
    [][\A i \in Inst :
          StaysDetached(i) =>
              /\ StateFlags(i)' = StateFlags(i)
              /\ EventsOf(i)' = {}]_vars

(***************************************************************************)
(* C40.  When several BlurhashCore objects exist, processImage on one of   *)
(* them never calls the native backend after the shared backend context    *)
(* has been cleared by cleanup() on another of them: a core's initialized  *)
(* flag is true only while the backend context is initialized.             *)
(***************************************************************************)
\* the last call handed a file to get_blurhash
BackendCalled == \E k \in 1..Len(op.native) : op.native[k] = "get_blurhash"

C40_CoreFlagFollowsContext ==
    /\ \A c \in Cores : cores[c].initialized => addon.initialized
    /\ (ProcessImageCalled /\ BackendCalled) => addon.initialized
====
